---- MODULE Spec2Model ----
(***************************************************************************)
(* Model of AstService.parseFunctionCalls, the recursive call-flow         *)
(* extractor: one invocation per (recursive) call of the async method, the *)
(* event loop interleaving their continuations.                            *)
(*                                                                         *)
(* An invocation runs in three synchronous segments separated by its two   *)
(* awaits: the prelude (visited check and insertion, up to the await of    *)
(* the file refresh), the walk (from the resumed load to the await of      *)
(* Promise.all), and the finalisation.  The .then callback attached to     *)
(* each child promise is a task of its own.                                *)
(***************************************************************************)
EXTENDS Integers, Sequences, FiniteSets, TLC

\* ------------------------------------------------------------------ bounds

\* Largest number of call expressions in the project's source text.
MaxCalls == 2

\* Deepest nesting of a call expression inside the arguments of another.
MaxDepth == 1

\* Largest number of top-level requests made on one AstService.
MaxRequests == 2

\* Largest number of FlowStorageService methods called on one service.
MaxOps == 2

\* ------------------------------------------------- values of the language

\* `undefined` for an optional line number (real lines are 1-indexed).
undefined == 0

\* `undefined` / empty functionName: both are falsy in the code's tests.
NoName == ""

\* `null` for entryNodeId / exitNodeId (uuids are modelled as 1, 2, 3, ...).
null == 0

\* ------------------------------------------------- the project under analysis

FileA == <<"src", "a.ts">>
FileB == <<"src", "b.ts">>
FileBad == <<"src", "bad.ts">>
FileLib == <<"node_modules", "lib", "index.ts">>
FileC == <<"src", "c.ts">>

\* Lines reserved for one declaration: header, one line per call, closing brace.
Slot == MaxCalls + 2

\* The declarations a callee symbol can resolve to (declarations[0]).
\*   container: "top" = top-level statement of its file, "class" = member
\*   of a class, "object" = method of an object literal (export const api =
\*   { run() {} }), which the type checker resolves for api.run() but which
\*   is no function, class member or variable of the file.
\*   cls: ordinal of the enclosing class in its file, 0 for none;
\*   name: the declaration's own name, or for a bound function literal the
\*   name of the variable or property it initialises.
Declarations ==
  [ main   |-> [file |-> FileA,   name |-> "main",   kind |-> "FunctionDeclaration",
                container |-> "top",    cls |-> 0, slot |-> 1],
    helper |-> [file |-> FileA,   name |-> "helper", kind |-> "FunctionDeclaration",
                container |-> "top",    cls |-> 0, slot |-> 2],
    g      |-> [file |-> FileB,   name |-> "g",      kind |-> "FunctionDeclaration",
                container |-> "top",    cls |-> 0, slot |-> 1],
    run    |-> [file |-> FileB,   name |-> "run",    kind |-> "MethodDeclaration",
                container |-> "object", cls |-> 0, slot |-> 2],
    broken |-> [file |-> FileBad, name |-> "broken", kind |-> "FunctionDeclaration",
                container |-> "top",    cls |-> 0, slot |-> 1],
    libfn  |-> [file |-> FileLib, name |-> "libfn",  kind |-> "FunctionDeclaration",
                container |-> "top",    cls |-> 0, slot |-> 1],
    \* c.ts:  class P { f = () => {}; h = function () {}; }
    \*        class Q { f() {}  k() {} }
    \*        function k() {}  const k = () => {};  const v = function () {};
    pf     |-> [file |-> FileC,   name |-> "f",      kind |-> "ArrowFunction",
                container |-> "class",  cls |-> 1, slot |-> 1],
    ph     |-> [file |-> FileC,   name |-> "h",      kind |-> "FunctionExpression",
                container |-> "class",  cls |-> 1, slot |-> 2],
    qf     |-> [file |-> FileC,   name |-> "f",      kind |-> "MethodDeclaration",
                container |-> "class",  cls |-> 2, slot |-> 3],
    qk     |-> [file |-> FileC,   name |-> "k",      kind |-> "MethodDeclaration",
                container |-> "class",  cls |-> 2, slot |-> 4],
    fk     |-> [file |-> FileC,   name |-> "k",      kind |-> "FunctionDeclaration",
                container |-> "top",    cls |-> 0, slot |-> 5],
    vk     |-> [file |-> FileC,   name |-> "k",      kind |-> "ArrowFunction",
                container |-> "top",    cls |-> 0, slot |-> 6],
    vv     |-> [file |-> FileC,   name |-> "v",      kind |-> "FunctionExpression",
                container |-> "top",    cls |-> 0, slot |-> 7] ]

DeclNames == DOMAIN Declarations

\* Declarations whose body text is read from disk by the analysis.
BodyDecls == {"main", "helper", "g"}

\* Callee texts that occur in the text of a.ts and b.ts: a declaration
\* outside c.ts (whose declarations are only looked up by name), or
\* "unknown", an identifier for which the type checker has no symbol.
Callees == {d \in DeclNames : Declarations[d].file # FileC} \cup {"unknown"}

\* Files that cannot be read or parsed.
Unreadable == {FileBad}

StartLineOf(d) == (Declarations[d].slot - 1) * Slot + 1
EndLineOf(d) == Declarations[d].slot * Slot

\* A call expression of a body: its callee text and its nesting depth, the
\* nodes of one body listed in document (pre-order) order.
CallNode == [callee : Callees, depth : 0..MaxDepth]

WellNested(b) ==
  \A i \in 1..Len(b) : b[i].depth <= (IF i = 1 THEN 0 ELSE b[i-1].depth + 1)

Bodies(n) ==
  UNION { { b \in [1..k -> CallNode] : WellNested(b) } : k \in 0..n }

BodiesUpTo == [n \in 0..MaxCalls |-> Bodies(n)]

\* ------------------------------------------------------------------ state

VARIABLES
  source,            \* the body text of each declaration, as far as it was read
  read,              \* the declarations whose body text has been read
  visitedFunctions,  \* AstService.visitedFunctions
  calls,             \* the invocations of parseFunctionCalls, in call order
  uuid,              \* how many uuidv4() values were handed out
  lookup             \* a call of findFunctionByName: its arguments and result

VARIABLES
  flowsFile,         \* the flows file on disk (FlowStorageService.flowsFilePath)
  storageOps         \* the calls of FlowStorageService methods, in call order

VARIABLES
  _webviewView,      \* GraphViewProvider._webviewView is set
  _currentFlowId,    \* GraphViewProvider._currentFlowId
  posted,            \* the messages posted to the webview, in order
  shows,             \* the calls of GraphViewProvider.showFlow, in call order
  exports            \* the calls of GraphViewProvider.requestExport

\* The state of GraphViewProvider.
viewVars == <<_webviewView, _currentFlowId, posted, shows, exports>>

VARIABLES
  traceDecorations,      \* the decoration types made and not yet disposed
  currentTraceInterval,  \* the interval the module-level variable refers to
  intervals,             \* the intervals that are set and not cleared
  traces                 \* the calls of traceFlowHandler, in call order

\* The state of the trace handler's module.
traceVars == <<traceDecorations, currentTraceInterval, intervals, traces>>

VARIABLES
  startPin,          \* FlowCaptureService.startPin
  endPin,            \* FlowCaptureService.endPin
  canSaveFlow,       \* the context key flowMaster.canSaveFlow
  captureOps         \* the calls of FlowCaptureService methods, in call order

\* The state of FlowCaptureService.
captureVars == <<startPin, endPin, canSaveFlow, captureOps>>

\* The state of the services around AstService.
collaborators == <<flowsFile, storageOps, viewVars, traceVars, captureVars>>

vars == <<source, read, visitedFunctions, calls, uuid, lookup, collaborators>>

\* The state of AstService.
astVars == <<source, read, visitedFunctions, calls, lookup>>

\* The services around AstService before their first use: an empty flows
\* file, no storage call under way.
ViewInit ==
  /\ _webviewView = FALSE
  /\ _currentFlowId = 0
  /\ posted = <<>>
  /\ shows = <<>>
  /\ exports = <<>>

\* No pin: the value of startPin and endPin before they are set.
NoPin == [filePath |-> <<>>, line |-> 0, identifier |-> ""]

\* part_000 lines 6-7.
TraceInit ==
  /\ traceDecorations = {}
  /\ currentTraceInterval = 0
  /\ intervals = {}
  /\ traces = <<>>

\* part_000 lines 189-200 and extension.ts line 99.
CaptureInit ==
  /\ startPin = NoPin
  /\ endPin = NoPin
  /\ canSaveFlow = FALSE
  /\ captureOps = <<>>

CollaboratorsInit ==
  /\ flowsFile = [state |-> "ok", flows |-> <<>>]
  /\ storageOps = <<>>
  /\ ViewInit
  /\ TraceInit
  /\ CaptureInit

\* ------------------------------------------------------- helpers on sources

RECURSIVE InSlotOrder(_)
InSlotOrder(S) ==
  IF S = {} THEN <<>>
  ELSE LET d == CHOOSE x \in S : \A y \in S : Declarations[x].slot <= Declarations[y].slot
       IN  <<d>> \o InSlotOrder(S \ {d})

RECURSIVE TotalCalls(_, _)
TotalCalls(src, S) ==
  IF S = {} THEN 0
  ELSE LET d == CHOOSE x \in S : TRUE
       IN  Len(src[d]) + TotalCalls(src, S \ {d})

\* Index of the first node after the subtree of node i (traversal.skip()).
SkipTo(b, i) ==
  IF \E j \in (i+1)..Len(b) : b[j].depth <= b[i].depth
  THEN CHOOSE j \in (i+1)..Len(b) :
         /\ b[j].depth <= b[i].depth
         /\ \A k \in (i+1)..(j-1) : b[k].depth > b[i].depth
  ELSE Len(b) + 1

\* The call expressions of declaration d with their line spans: node i is
\* written on line StartLineOf(d) + i and ends with its last argument.
NodesOf(src, d) ==
  [ i \in 1..Len(src[d]) |->
      [ callee    |-> src[d][i].callee,
        depth     |-> src[d][i].depth,
        file      |-> Declarations[d].file,
        startLine |-> StartLineOf(d) + i,
        endLine   |-> StartLineOf(d) + SkipTo(src[d], i) - 1 ] ]

RECURSIVE Concat(_, _)
Concat(src, ds) ==
  IF ds = <<>> THEN <<>> ELSE NodesOf(src, Head(ds)) \o Concat(src, Tail(ds))

\* All call expressions of a file in document order (forEachDescendant on
\* the SourceFile).
NodesOfFile(src, file) ==
  Concat(src, InSlotOrder({d \in BodyDecls : Declarations[d].file = file}))

\* ------------------------------------------------------------ parseFunctionCalls

\* const visitedKey = `${filePath}::${functionName || `range:${startLine}-${endLine}`}`
VisitedKey(filePath, functionName, startLine, endLine) ==
  IF functionName # NoName
  THEN [file |-> filePath, scope |-> functionName, from |-> undefined, to |-> undefined]
  ELSE [file |-> filePath, scope |-> "range:", from |-> startLine, to |-> endLine]

EmptyResult == [nodes |-> <<>>, edges |-> <<>>, entryNodeId |-> null, exitNodeId |-> null]

\* One invocation: its arguments, where it stands (pc), its locals and, once
\* pc = "done", the value its promise resolved to.
\*   pc = "load"  : suspended at the await of refreshFromFileSystem/formatText
\*   pc = "await" : suspended at await Promise.all(descendantParsePromises)
\*   pc = "done"  : returned
\*   promises[k]  : the child invocation of the k-th recursive call, its call
\*                  site, and whether its .then callback has run
\*   inserted     : the invocation passed the visited check and executed
\*                  visitedFunctions.add(visitedKey) (line 93)
\*   reported     : the invocation showed the error message of line 116
NewCall(filePath, functionName, startLine, endLine, isRecursiveCall, callerNodeId, pc) ==
  [ filePath |-> filePath, functionName |-> functionName,
    startLine |-> startLine, endLine |-> endLine,
    isRecursiveCall |-> isRecursiveCall, callerNodeId |-> callerNodeId,
    pc |-> pc, inserted |-> (pc # "done"), reported |-> FALSE,
    localNodes |-> <<>>, localEdges |-> <<>>,
    currentScopeEntryNodeId |-> null, currentScopeExitNodeId |-> null,
    lastProcessedNodeIdInCurrentScope |-> null,
    promises |-> <<>>,
    result |-> EmptyResult ]

\* Prelude with a visited key joined to the expansion already in flight
\* instead of returning empty: the branch waits for a promise that, on a
\* cycle, waits for the branch.
PreludeJoinsVisited(visited, filePath, functionName, startLine, endLine, isRecursiveCall, callerNodeId) ==
  IF VisitedKey(filePath, functionName, startLine, endLine) \in visited
  THEN [ visited |-> visited,
         call |-> NewCall(filePath, functionName, startLine, endLine,
                          isRecursiveCall, callerNodeId, "joined") ]
  ELSE [ visited |-> visited \cup {VisitedKey(filePath, functionName, startLine, endLine)},
         call |-> NewCall(filePath, functionName, startLine, endLine,
                          isRecursiveCall, callerNodeId, "load") ]

\* Prelude without visitedFunctions.add(visitedKey).
PreludeNoInsert(visited, filePath, functionName, startLine, endLine, isRecursiveCall, callerNodeId) ==
  IF VisitedKey(filePath, functionName, startLine, endLine) \in visited
  THEN [ visited |-> visited,
         call |-> NewCall(filePath, functionName, startLine, endLine,
                          isRecursiveCall, callerNodeId, "done") ]
  ELSE [ visited |-> visited,
         call |-> NewCall(filePath, functionName, startLine, endLine,
                          isRecursiveCall, callerNodeId, "load") ]

\* The synchronous start of an invocation (lines 87-93 and the start of the
\* load): a visited key returns the empty result at once, a new key is
\* inserted and the invocation suspends at its first await.
Prelude(visited, filePath, functionName, startLine, endLine, isRecursiveCall, callerNodeId) ==
  IF VisitedKey(filePath, functionName, startLine, endLine) \in visited
  THEN [ visited |-> visited,
         call |-> NewCall(filePath, functionName, startLine, endLine,
                          isRecursiveCall, callerNodeId, "done") ]
  ELSE [ visited |-> visited \cup {VisitedKey(filePath, functionName, startLine, endLine)},
         call |-> NewCall(filePath, functionName, startLine, endLine,
                          isRecursiveCall, callerNodeId, "load") ]

\* The span test with both ends excluded.
isNodeStrictlyAroundLine(d, targetLine) ==
  targetLine > StartLineOf(d) /\ targetLine < EndLineOf(d)

\* Lines 465-470.
isNodeAroundLine(d, targetLine) ==
  targetLine >= StartLineOf(d) /\ targetLine <= EndLineOf(d)

NotFound == "<undefined>"

\* No call of findFunctionByName is being observed.
NoLookup == [file |-> <<>>, functionName |-> NoName, targetLine |-> undefined,
             found |-> NotFound, returned |-> FALSE]

\* A candidate declaration d is accepted by the .find(...) predicates.
Accept(d, functionName, targetLine) ==
  /\ Declarations[d].name = functionName
  /\ (targetLine = undefined \/ isNodeAroundLine(d, targetLine))

\* Array.prototype.find over the candidates in document order.
RECURSIVE FirstOf(_, _, _)
FirstOf(seq, functionName, targetLine) ==
  IF seq = <<>> THEN NotFound
  ELSE IF Accept(Head(seq), functionName, targetLine) THEN Head(seq)
  ELSE FirstOf(Tail(seq), functionName, targetLine)

\* `if (foundFunc) return foundFunc;` between the searches.
OrElse(found, next) == IF found # NotFound THEN found ELSE next

\* The candidates of one kind in a file (and, for members, one class).
Candidates(file, container, cls, kinds) ==
  InSlotOrder({d \in DeclNames :
                 /\ Declarations[d].file = file
                 /\ Declarations[d].container = container
                 /\ Declarations[d].cls = cls
                 /\ Declarations[d].kind \in kinds})

MinOf(S) == CHOOSE x \in S : \A y \in S : x <= y

\* The class ordinals of a file, ascending.
ClassesOf(file) ==
  {Declarations[d].cls : d \in {x \in DeclNames : Declarations[x].file = file
                                                  /\ Declarations[x].container = "class"}}

RECURSIVE FindInClasses(_, _, _, _)
FindInClasses(file, cs, functionName, targetLine) ==
  IF cs = {} THEN NotFound
  ELSE OrElse(FirstOf(Candidates(file, "class", MinOf(cs), {"MethodDeclaration"}),
                      functionName, targetLine),
       OrElse(FirstOf(Candidates(file, "class", MinOf(cs), {"ArrowFunction"}),
                      functionName, targetLine),
              FindInClasses(file, cs \ {MinOf(cs)}, functionName, targetLine)))

findFunctionByName(file, functionName, targetLine) ==
  OrElse(FirstOf(Candidates(file, "top", 0, {"FunctionDeclaration"}),
                 functionName, targetLine),
  OrElse(FindInClasses(file, ClassesOf(file), functionName, targetLine),
         FirstOf(Candidates(file, "top", 0, {"ArrowFunction", "FunctionExpression"}),
                 functionName, targetLine)))

\* targetFilePath.includes("node_modules")
InNodeModules(filePath) == \E i \in 1..Len(filePath) : filePath[i] = "node_modules"

\* The resolution without the node_modules test of line 283.
ResolvesAnywhere(callee) ==
  /\ callee \in DeclNames
  /\ Declarations[callee].kind \in {"FunctionDeclaration", "MethodDeclaration",
                                    "ArrowFunction", "FunctionExpression"}

\* Lines 272-286: the callee has a symbol whose first declaration is
\* function-like and lies outside node_modules.
ResolvesInProject(callee) ==
  /\ callee \in DeclNames
  /\ Declarations[callee].kind \in {"FunctionDeclaration", "MethodDeclaration",
                                    "ArrowFunction", "FunctionExpression"}
  /\ ~InNodeModules(Declarations[callee].file)

\* Lines 287-305: the name passed to the recursive call.
TargetFunctionName(callee) == Declarations[callee].name

NoReference == [filePath |-> <<>>, startLine |-> -1, endLine |-> -1]

\* createCodeReference: the node's file and its 0-indexed line range.
createCodeReference(filePath, startLine, endLine) ==
  [filePath |-> filePath, startLine |-> startLine - 1, endLine |-> endLine - 1]

FlowNode(id, tag, name, type, ref) ==
  [id |-> id, label |-> [tag |-> tag, name |-> name], type |-> type, codeReference |-> ref]

FlowEdge(id, from, to) == [id |-> id, from |-> from, to |-> to, type |-> "DirectCall"]

\* A walk that applies no line window.
NoWindow(n, startLine, endLine) == FALSE

\* Lines 231-240: the node is left out of the scope by the line window.
OutsideWindow(n, startLine, endLine) ==
  /\ startLine # undefined /\ endLine # undefined
  /\ (n.startLine < startLine \/ n.endLine > endLine)

\* Lines 235-237: the node lies wholly outside the window: traversal.skip().
WhollyOutside(n, startLine, endLine) ==
  n.endLine < startLine \/ n.startLine > endLine

\* The call-site node with its edge drawn from the scope's entry node.
LinkFromEntry(w, n) ==
  [w EXCEPT
     !.nodes = Append(@, FlowNode(w.uuid + 1, "Call: ", n.callee, "Function",
                                  createCodeReference(n.file, n.startLine, n.endLine))),
     !.edges = Append(@, FlowEdge(w.uuid + 2, w.nodes[1].id, w.uuid + 1)),
     !.uuid  = w.uuid + 2,
     !.last  = w.uuid + 1]

\* Lines 253-270: the call-site node and the edge from the preceding node.
LinkCallSite(w, n) ==
  [w EXCEPT
     !.nodes = Append(@, FlowNode(w.uuid + 1, "Call: ", n.callee, "Function",
                                  createCodeReference(n.file, n.startLine, n.endLine))),
     !.edges = IF w.last # null
               THEN Append(@, FlowEdge(w.uuid + 2, w.last, w.uuid + 1))
               ELSE @,
     !.uuid  = IF w.last # null THEN w.uuid + 2 ELSE w.uuid + 1,
     !.last  = w.uuid + 1]

\* A recursive call after which the walk descends into the call's subtree.
LaunchAndDescend(w, p, callSiteNodeId, base) ==
  [w EXCEPT
     !.visited  = p.visited,
     !.spawned  = Append(@, p.call),
     !.promises = Append(@, [child |-> base + Len(w.spawned) + 1,
                             callSiteNodeId |-> callSiteNodeId,
                             settled |-> FALSE]),
     !.skip     = FALSE]

\* A recursive call whose key insertion the rest of the walk does not see.
LaunchUnseen(w, p, callSiteNodeId, base) ==
  [w EXCEPT
     !.spawned  = Append(@, p.call),
     !.promises = Append(@, [child |-> base + Len(w.spawned) + 1,
                             callSiteNodeId |-> callSiteNodeId,
                             settled |-> FALSE]),
     !.skip     = TRUE]

\* A recursive call whose result is merged where the call is made.
LaunchMergedAtOnce(w, p, callSiteNodeId, base) ==
  [w EXCEPT
     !.visited  = p.visited,
     !.spawned  = Append(@, p.call),
     !.promises = Append(@, [child |-> base + Len(w.spawned) + 1,
                             callSiteNodeId |-> callSiteNodeId,
                             settled |-> p.call.pc = "done"]),
     !.skip     = TRUE]

\* Lines 308-345: the recursive call p was started for call site callSiteNodeId;
\* its promise is queued and the subtree of the call is skipped.
Launch(w, p, callSiteNodeId, base) ==
  [w EXCEPT
     !.visited  = p.visited,
     !.spawned  = Append(@, p.call),
     !.promises = Append(@, [child |-> base + Len(w.spawned) + 1,
                             callSiteNodeId |-> callSiteNodeId,
                             settled |-> FALSE]),
     !.skip     = TRUE]

\* Lines 242-352, for one call expression n inside the window.  w carries the
\* locals of the walking invocation and what its recursive calls did
\* synchronously: the visited set, the uuids used and the child invocations
\* started (numbered from base + 1).
VisitCall(w, n, base) ==
  IF ResolvesInProject(n.callee)
  THEN Launch(LinkCallSite(w, n),
              Prelude(w.visited, Declarations[n.callee].file,
                      TargetFunctionName(n.callee), StartLineOf(n.callee),
                      undefined, TRUE, w.uuid + 1),
              w.uuid + 1, base)
  ELSE [LinkCallSite(w, n) EXCEPT !.skip = FALSE]

\* rootNodeToScan.forEachDescendant(...), lines 230-354, from node i on.
RECURSIVE Descend(_, _, _, _, _, _)
Descend(w, scan, i, startLine, endLine, base) ==
  IF i > Len(scan) THEN w
  ELSE IF OutsideWindow(scan[i], startLine, endLine)
       THEN Descend(w, scan,
                    IF WhollyOutside(scan[i], startLine, endLine)
                    THEN SkipTo(scan, i) ELSE i + 1,
                    startLine, endLine, base)
       ELSE CHOOSE result \in
              { Descend(v, scan, IF v.skip THEN SkipTo(scan, i) ELSE i + 1,
                        startLine, endLine, base) :
                v \in {VisitCall(w, scan[i], base)} } : TRUE

\* The last line of a file's text.
LastLineOfFile(file) ==
  LET ds == {d \in DeclNames : Declarations[d].file = file}
  IN  IF ds = {} THEN 1 ELSE EndLineOf(CHOOSE d \in ds : \A e \in ds : EndLineOf(e) <= EndLineOf(d))

\* What lines 122-225 decide: either the entry and exit nodes and the nodes
\* to walk, or an early return.
Scope(entryNode, exitNode, scan, id) ==
  [kind |-> "walk", nodes |-> <<entryNode, exitNode>>, scan |-> scan,
   uuid |-> id + 2, result |-> EmptyResult]

Return(r, id) ==
  [kind |-> "return", nodes |-> r.nodes, scan |-> <<>>, uuid |-> id, result |-> r]

\* The scope of a named function with the stand-in of lines 155-171 made
\* only for a request without a caller.
FunctionScopeNoteAtTop(c, src, id, foundFunction) ==
  IF foundFunction # NotFound
  THEN Scope(FlowNode(id + 1, "", c.functionName,
                      IF c.isRecursiveCall THEN "Function" ELSE "EntryPoint",
                      createCodeReference(c.filePath, StartLineOf(foundFunction),
                                          EndLineOf(foundFunction))),
             FlowNode(id + 2, "Exit ", c.functionName, "ExitPoint",
                      createCodeReference(c.filePath, EndLineOf(foundFunction),
                                          EndLineOf(foundFunction))),
             IF foundFunction \in BodyDecls THEN NodesOf(src, foundFunction) ELSE <<>>,
             id)
  ELSE IF c.callerNodeId = null
       THEN Return([nodes |-> <<FlowNode(id + 1, "Unresolved: ", c.functionName,
                                         "Note", NoReference)>>,
                    edges |-> <<>>,
                    entryNodeId |-> id + 1, exitNodeId |-> id + 1], id + 1)
       ELSE Return(EmptyResult, id)

\* Lines 127-173: the scope of a named function.
FunctionScope(c, src, id, foundFunction) ==
  IF foundFunction # NotFound
  THEN Scope(FlowNode(id + 1, "", c.functionName,
                      IF c.isRecursiveCall THEN "Function" ELSE "EntryPoint",
                      createCodeReference(c.filePath, StartLineOf(foundFunction),
                                          EndLineOf(foundFunction))),
             FlowNode(id + 2, "Exit ", c.functionName, "ExitPoint",
                      createCodeReference(c.filePath, EndLineOf(foundFunction),
                                          EndLineOf(foundFunction))),
             IF foundFunction \in BodyDecls THEN NodesOf(src, foundFunction) ELSE <<>>,
             id)
  ELSE IF c.callerNodeId # null
       THEN Return([nodes |-> <<FlowNode(id + 1, "Unresolved: ", c.functionName,
                                         "Note", NoReference)>>,
                    edges |-> <<>>,
                    entryNodeId |-> id + 1, exitNodeId |-> id + 1], id + 1)
       ELSE Return(EmptyResult, id)

\* Lines 122-225: the scope of the invocation c once its file is loaded.
ResolveScope(c, src, id) ==
  IF c.functionName # NoName
  THEN FunctionScope(c, src, id,
                     findFunctionByName(c.filePath, c.functionName, c.startLine))
  ELSE IF c.startLine # undefined /\ c.endLine # undefined /\ ~c.isRecursiveCall
  THEN Scope(FlowNode(id + 1, "Code Block", NoName, "EntryPoint", NoReference),
             FlowNode(id + 2, "Exit Block", NoName, "ExitPoint", NoReference),
             NodesOfFile(src, c.filePath), id)
  ELSE IF ~c.isRecursiveCall
  THEN Scope(FlowNode(id + 1, "File", NoName, "EntryPoint",
                      createCodeReference(c.filePath, 1, LastLineOfFile(c.filePath))),
             FlowNode(id + 2, "Exit File", NoName, "ExitPoint", NoReference),
             NodesOfFile(src, c.filePath), id)
  ELSE Return(EmptyResult, id)

\* The declarations whose text the walk of c reads.
TextNeeded(c) ==
  IF c.functionName # NoName
  THEN {findFunctionByName(c.filePath, c.functionName, c.startLine)} \cap BodyDecls
  ELSE IF c.isRecursiveCall THEN {}
  ELSE {d \in BodyDecls : Declarations[d].file = c.filePath}

\* The ways the unread texts in `need` can read, with at most `budget` call
\* expressions in all: a function from `need` to bodies.
RECURSIVE ReadChoices(_, _)
ReadChoices(need, budget) ==
  IF need = {} THEN {<<>>}
  ELSE LET d == CHOOSE x \in need : TRUE
       IN  UNION { { (d :> b) @@ r : r \in ReadChoices(need \ {d}, budget - Len(b)) }
                   : b \in BodiesUpTo[budget] }

HasOutgoing(edges, id) == \E i \in 1..Len(edges) : edges[i].from = id

\* Lines 326-339: the edge from the sub-result's exit node, unless that node
\* already has an outgoing edge.
StitchExit(nodes, edges, r, last, id) ==
  IF r.exitNodeId # null /\ ~HasOutgoing(edges, r.exitNodeId)
  THEN [localNodes |-> nodes,
        localEdges |-> Append(edges, FlowEdge(id + 2, r.exitNodeId, last)),
        uuid |-> id + 2]
  ELSE [localNodes |-> nodes, localEdges |-> edges, uuid |-> id + 1]

\* The callback pushing the sub-result's nodes and edges twice.
StitchTwice(c, r, callSiteNodeId, id) ==
  IF Len(r.nodes) > 0 /\ r.entryNodeId # null
  THEN StitchExit(c.localNodes \o r.nodes \o r.nodes,
                  Append(c.localEdges \o r.edges \o r.edges,
                         FlowEdge(id + 1, callSiteNodeId, r.entryNodeId)),
                  r, c.lastProcessedNodeIdInCurrentScope, id)
  ELSE [localNodes |-> c.localNodes, localEdges |-> c.localEdges, uuid |-> id]

\* The callback without the test of line 315.
StitchUnguarded(c, r, callSiteNodeId, id) ==
  StitchExit(c.localNodes \o r.nodes,
             Append(c.localEdges \o r.edges,
                    FlowEdge(id + 1, callSiteNodeId, r.entryNodeId)),
             r, c.lastProcessedNodeIdInCurrentScope, id)

\* The callback without the edge of lines 319-324.
StitchNoCallEdge(c, r, callSiteNodeId, id) ==
  IF Len(r.nodes) > 0 /\ r.entryNodeId # null
  THEN StitchExit(c.localNodes \o r.nodes, c.localEdges \o r.edges,
                  r, c.lastProcessedNodeIdInCurrentScope, id)
  ELSE [localNodes |-> c.localNodes, localEdges |-> c.localEdges, uuid |-> id]

\* The callback without the push of the sub-result's nodes, line 316.
StitchNoNodes(c, r, callSiteNodeId, id) ==
  IF Len(r.nodes) > 0 /\ r.entryNodeId # null
  THEN StitchExit(c.localNodes,
                  Append(c.localEdges \o r.edges,
                         FlowEdge(id + 1, callSiteNodeId, r.entryNodeId)),
                  r, c.lastProcessedNodeIdInCurrentScope, id)
  ELSE [localNodes |-> c.localNodes, localEdges |-> c.localEdges, uuid |-> id]

\* The .then callback of a recursive call, lines 315-341, run by invocation c
\* on the result r of the child started at callSiteNodeId.
Stitch(c, r, callSiteNodeId, id) ==
  IF Len(r.nodes) > 0 /\ r.entryNodeId # null
  THEN StitchExit(c.localNodes \o r.nodes,
                  Append(c.localEdges \o r.edges,
                         FlowEdge(id + 1, callSiteNodeId, r.entryNodeId)),
                  r, c.lastProcessedNodeIdInCurrentScope, id)
  ELSE [localNodes |-> c.localNodes, localEdges |-> c.localEdges, uuid |-> id]

\* The return with the edge to the exit node pushed unconditionally.
AlwaysFinalEdge(c, id) ==
  Append(c.localEdges, FlowEdge(id + 1, c.lastProcessedNodeIdInCurrentScope,
                                c.currentScopeExitNodeId))

\* The return without the edges of lines 358-386.
NoFinalEdges(c, id) == c.localEdges

\* Lines 358-386: the edge to the scope's exit node added after Promise.all.
FinalEdges(c, id) ==
  IF /\ c.lastProcessedNodeIdInCurrentScope # null
     /\ c.lastProcessedNodeIdInCurrentScope # c.currentScopeExitNodeId
     /\ ~HasOutgoing(c.localEdges, c.lastProcessedNodeIdInCurrentScope)
  THEN Append(c.localEdges, FlowEdge(id + 1, c.lastProcessedNodeIdInCurrentScope,
                                     c.currentScopeExitNodeId))
  ELSE IF /\ c.lastProcessedNodeIdInCurrentScope = c.currentScopeEntryNodeId
          /\ c.currentScopeEntryNodeId # c.currentScopeExitNodeId
          /\ Len(c.localNodes) <= 2
  THEN Append(c.localEdges,
              FlowEdge(id + 1, c.currentScopeEntryNodeId, c.currentScopeExitNodeId))
  ELSE c.localEdges

\* ------------------------------------------------------------------ requests

\* The top-level requests: a named function (with or without the pin's
\* line), a line window of a file (one of them with its end before its
\* start), a whole file.
Requests ==
     { [filePath |-> FileA, functionName |-> "main", startLine |-> l, endLine |-> undefined] :
         l \in {2, Slot + 2} }
  \cup { [filePath |-> FileA, functionName |-> NoName, startLine |-> w[1], endLine |-> w[2]] :
         w \in {<<2, 2>>, <<2, 3>>, <<3, Slot + 2>>, <<3, 2>>} }
  \cup { [filePath |-> FileA, functionName |-> "helper", startLine |-> undefined,
          endLine |-> undefined],
         [filePath |-> FileA, functionName |-> NoName, startLine |-> undefined,
          endLine |-> undefined],
         [filePath |-> FileB, functionName |-> "run", startLine |-> undefined,
          endLine |-> undefined],
         [filePath |-> FileBad, functionName |-> "broken", startLine |-> undefined,
          endLine |-> undefined] }

\* ------------------------------------------------------------------ actions

Init ==
  /\ source = [d \in BodyDecls |-> <<>>]
  /\ read = {}
  /\ visitedFunctions = {}
  /\ calls = <<>>
  /\ uuid = 0
  /\ lookup = NoLookup
  /\ CollaboratorsInit

\* A return that leaves exitNodeId out of the result.
DoneNoExit(c, r) == [c EXCEPT !.pc = "done", !.result = [r EXCEPT !.exitNodeId = null]]

\* Lines 91, 119, 166, 172, 214, 391-396: the invocation returns r.
Done(c, r) == [c EXCEPT !.pc = "done", !.result = r]

\* A load failure that escapes the invocation: its promise rejects.
FailedRejects(c) == [c EXCEPT !.pc = "rejected"]

\* Lines 114-120, the catch block: the error is logged and shown, and the
\* invocation returns the empty result.
Failed(c) == [Done(c, EmptyResult) EXCEPT !.reported = TRUE]

\* A collaborator calls parseFunctionCalls(filePath, functionName, startLine,
\* endLine): lines 83-113 up to the first await.  addSourceFileAtPath throws
\* synchronously for a file that cannot be read (thrown = TRUE); a file
\* already in the project fails at the awaited refresh instead (LoadFails).
Started(p, thrown) ==
  /\ visitedFunctions' = p.visited
  /\ calls' = <<IF thrown THEN Failed(p.call) ELSE p.call>>

StartExtract(req, thrown) ==
  /\ calls = <<>>
  /\ thrown => req.filePath \in Unreadable
  /\ Started(Prelude({}, req.filePath, req.functionName, req.startLine, req.endLine,
                     FALSE, null), thrown)
  /\ UNCHANGED <<source, read, uuid, lookup>>
  /\ UNCHANGED collaborators

\* Lines 114-120: the awaited refresh rejects; the invocation returns empty.
LoadFails(self) ==
  /\ calls[self].pc = "load"
  /\ calls[self].filePath \in Unreadable
  /\ calls' = [calls EXCEPT ![self] = Failed(@)]
  /\ UNCHANGED <<source, read, visitedFunctions, uuid, lookup>>
  /\ UNCHANGED collaborators

\* Lines 165-172 and 214: the invocation returns without walking.
Returned(self, scope) ==
  /\ calls' = [calls EXCEPT ![self] = Done([@ EXCEPT !.localNodes = scope.nodes],
                                           scope.result)]
  /\ uuid' = scope.uuid
  /\ UNCHANGED visitedFunctions

\* Line 356: the walk w is over and the invocation suspends at Promise.all;
\* the recursive calls it made have run their synchronous start.
Suspended(self, w) ==
  /\ calls' = [calls EXCEPT ![self] =
                 [@ EXCEPT !.pc = "await",
                           !.currentScopeEntryNodeId = w.nodes[1].id,
                           !.currentScopeExitNodeId = w.nodes[2].id,
                           !.localNodes = w.nodes,
                           !.localEdges = w.edges,
                           !.lastProcessedNodeIdInCurrentScope = w.last,
                           !.promises = w.promises]] \o w.spawned
  /\ uuid' = w.uuid
  /\ visitedFunctions' = w.visited

\* Lines 227-228: the locals of the walk before its first node.
WalkStart(scope) ==
  [nodes |-> scope.nodes, edges |-> <<>>, last |-> scope.nodes[1].id,
   uuid |-> scope.uuid, visited |-> visitedFunctions, spawned |-> <<>>,
   promises |-> <<>>, skip |-> FALSE]

Walked(self, scope) ==
  IF scope.kind = "return"
  THEN Returned(self, scope)
  ELSE \E w \in {Descend(WalkStart(scope), scope.scan, 1,
                          calls[self].startLine, calls[self].endLine, Len(calls))} :
         Suspended(self, w)

\* The file read gives the text src.
Loaded(self, src, unread) ==
  /\ source' = src
  /\ read' = read \cup unread
  /\ \E scope \in {ResolveScope(calls[self], src, uuid)} : Walked(self, scope)

\* Lines 108-356: the load resumes, the scope is resolved and walked, every
\* recursive call runs its synchronous start, and the invocation suspends at
\* Promise.all (or returns early, lines 165-172 and 214).
Walk(self) ==
  /\ calls[self].pc = "load"
  /\ calls[self].filePath \notin Unreadable
  /\ \E texts \in ReadChoices(TextNeeded(calls[self]) \ read,
                               MaxCalls - TotalCalls(source, read)) :
       \E src \in {[d \in BodyDecls |-> IF d \in DOMAIN texts THEN texts[d]
                                                              ELSE source[d]]} :
         Loaded(self, src, DOMAIN texts)
  /\ UNCHANGED lookup
  /\ UNCHANGED collaborators

\* The merge m of a child's result is stored.
Merged(self, k, m) ==
  /\ calls' = [calls EXCEPT ![self] =
                 [@ EXCEPT !.localNodes = m.localNodes,
                           !.localEdges = m.localEdges,
                           !.promises[k].settled = TRUE]]
  /\ uuid' = m.uuid

\* A callback that runs without waiting for its recursive call to return.
ThenUnawaited(self, k) ==
  /\ calls[self].pc = "await"
  /\ k \in 1..Len(calls[self].promises)
  /\ ~calls[self].promises[k].settled
  /\ \E m \in {Stitch(calls[self], calls[calls[self].promises[k].child].result,
                       calls[self].promises[k].callSiteNodeId, uuid)} :
       Merged(self, k, m)
  /\ UNCHANGED <<source, read, visitedFunctions, lookup>>
  /\ UNCHANGED collaborators

\* The .then callback of the k-th recursive call of invocation self runs once
\* the child's promise has resolved.
Then(self, k) ==
  /\ calls[self].pc = "await"
  /\ k \in 1..Len(calls[self].promises)
  /\ ~calls[self].promises[k].settled
  /\ calls[calls[self].promises[k].child].pc = "done"
  /\ \E m \in {Stitch(calls[self], calls[calls[self].promises[k].child].result,
                       calls[self].promises[k].callSiteNodeId, uuid)} :
       Merged(self, k, m)
  /\ UNCHANGED <<source, read, visitedFunctions, lookup>>
  /\ UNCHANGED collaborators

\* The invocation returns with the edges it ends with.
ReturnedWith(self, edges) ==
  /\ calls' = [calls EXCEPT ![self] =
                 Done([@ EXCEPT !.localEdges = edges],
                      [nodes |-> calls[self].localNodes, edges |-> edges,
                       entryNodeId |-> calls[self].currentScopeEntryNodeId,
                       exitNodeId |-> calls[self].currentScopeExitNodeId])]
  /\ uuid' = uuid + (Len(edges) - Len(calls[self].localEdges))

\* Lines 356-396: Promise.all has resolved; the exit edge is added and the
\* invocation returns its result.
Finalize(self) ==
  /\ calls[self].pc = "await"
  /\ \A k \in 1..Len(calls[self].promises) : calls[self].promises[k].settled
  /\ \E edges \in {FinalEdges(calls[self], uuid)} : ReturnedWith(self, edges)
  /\ UNCHANGED <<source, read, visitedFunctions, lookup>>
  /\ UNCHANGED collaborators

Next ==
  \/ \E req \in Requests, thrown \in BOOLEAN : StartExtract(req, thrown)
  \/ \E self \in 1..Len(calls) : LoadFails(self)
  \/ \E self \in 1..Len(calls) : Walk(self)
  \/ \E self \in 1..Len(calls), k \in 1..MaxCalls : Then(self, k)
  \/ \E self \in 1..Len(calls) : Finalize(self)

Spec == Init /\ [][Next]_vars

\* The event loop runs every continuation that is ready and every awaited
\* file operation settles: weak fairness of the continuations.
Continue ==
  \/ \E self \in 1..Len(calls) : LoadFails(self)
  \/ \E self \in 1..Len(calls) : Walk(self)
  \/ \E self \in 1..Len(calls), k \in 1..MaxCalls : Then(self, k)
  \/ \E self \in 1..Len(calls) : Finalize(self)

FairSpec == Spec /\ WF_vars(Continue)

\* The top-level invocations made so far.
TopLevel == {i \in 1..Len(calls) : ~calls[i].isRecursiveCall}

\* The requests a collaborator makes while an earlier one is in flight.
OverlapRequests ==
  {req \in Requests : req.filePath = FileA /\ req.functionName \in {"main", "helper"}
                       /\ req.startLine \in {undefined, 2}}

\* A collaborator calls parseFunctionCalls while an earlier top-level call
\* on the same AstService has not returned: line 84 clears the instance's
\* visitedFunctions, lines 87-113 run up to the first await.
StartOverlapping(req) ==
  /\ calls # <<>>
  /\ Cardinality(TopLevel) < MaxRequests
  /\ \E i \in TopLevel : calls[i].pc # "done"
  /\ \E p \in {Prelude({}, req.filePath, req.functionName, req.startLine,
                         req.endLine, FALSE, null)} :
       /\ visitedFunctions' = p.visited
       /\ calls' = Append(calls, p.call)
  /\ UNCHANGED <<source, read, uuid, lookup>>
  /\ UNCHANGED collaborators

NextOverlap ==
  \/ \E req \in OverlapRequests : StartExtract(req, FALSE)
  \/ \E req \in OverlapRequests : StartOverlapping(req)
  \/ \E self \in 1..Len(calls) : Walk(self)
  \/ \E self \in 1..Len(calls), k \in 1..MaxCalls : Then(self, k)
  \/ \E self \in 1..Len(calls) : Finalize(self)

\* The texts of a.ts the overlapping requests are made on: main and helper
\* calling each other, themselves or nothing; the files are already in the
\* project, so a walk reads no new text.
OverlapSources ==
  {src \in [BodyDecls -> BodiesUpTo[MaxCalls]] :
     /\ src["g"] = <<>>
     /\ TotalCalls(src, BodyDecls) <= MaxCalls
     /\ \A d \in BodyDecls : \A i \in 1..Len(src[d]) :
          src[d][i].callee \in {"main", "helper"}}

InitOverlap ==
  /\ source \in OverlapSources
  /\ read = BodyDecls
  /\ visitedFunctions = {}
  /\ calls = <<>>
  /\ uuid = 0
  /\ lookup = NoLookup
  /\ CollaboratorsInit

\* One AstService serving overlapping requests (FlowCaptureService keeps a
\* single instance and every capture command calls it).
OverlapSpec == InitOverlap /\ [][NextOverlap]_vars

\* The texts the repeated request is made on: main calls helper (a.ts) and
\* g (b.ts), each of which is empty or makes one call.
RaceSources ==
  {src \in [BodyDecls -> Bodies(1) \cup {<<[callee |-> "helper", depth |-> 0],
                                              [callee |-> "g", depth |-> 0]>>}] :
     /\ src["main"] = <<[callee |-> "helper", depth |-> 0], [callee |-> "g", depth |-> 0]>>
     /\ \A d \in {"helper", "g"} :
          /\ Len(src[d]) <= 1
          /\ \A i \in 1..Len(src[d]) :
               src[d][i].depth = 0 /\ src[d][i].callee \in {"run", "broken", "unknown"}}

InitRace ==
  /\ source \in RaceSources
  /\ read = BodyDecls
  /\ visitedFunctions = {}
  /\ calls = <<>>
  /\ uuid = 0
  /\ lookup = NoLookup
  /\ CollaboratorsInit

\* The request for main, pinned on its second line.
RaceRequests ==
  {req \in Requests : req.functionName = "main" /\ req.startLine = 2}

\* The collaborator repeats the first request once every earlier one has
\* returned: line 84 clears visitedFunctions, lines 87-113 run up to the
\* first await.
StartAgain ==
  /\ calls # <<>>
  /\ Cardinality(TopLevel) < MaxRequests
  /\ \A i \in 1..Len(calls) : calls[i].pc = "done"
  /\ \E p \in {Prelude({}, calls[1].filePath, calls[1].functionName, calls[1].startLine,
                         calls[1].endLine, FALSE, null)} :
       /\ visitedFunctions' = p.visited
       /\ calls' = Append(calls, p.call)
  /\ UNCHANGED <<source, read, uuid, lookup>>
  /\ UNCHANGED collaborators

NextRace ==
  \/ \E req \in RaceRequests : StartExtract(req, FALSE)
  \/ StartAgain
  \/ \E self \in 1..Len(calls) : LoadFails(self)
  \/ \E self \in 1..Len(calls) : Walk(self)
  \/ \E self \in 1..Len(calls), k \in 1..MaxCalls : Then(self, k)
  \/ \E self \in 1..Len(calls) : Finalize(self)

\* One request made twice on the same project, the sub-extractions of each
\* run completing in any order.
RaceSpec == InitRace /\ [][NextRace]_vars

\* A project in which main calls functions of c.ts, among them the method k
\* of class Q and the top-level function k, and a function of the unreadable
\* file; the functions of c.ts call nothing.
SameNameSources ==
  {src \in [BodyDecls -> Bodies(0) \cup [1..2 -> CallNode \cup [callee : {"qf", "qk", "fk"},
                                                                 depth : {0}]]] :
     /\ Len(src["main"]) = 2
     /\ \A i \in 1..2 :
          src["main"][i].depth = 0 /\ src["main"][i].callee \in {"qf", "qk", "fk", "broken"}
     /\ src["helper"] = <<>>
     /\ src["g"] = <<>>}

InitSameName ==
  /\ source \in SameNameSources
  /\ read = BodyDecls
  /\ visitedFunctions = {}
  /\ calls = <<>>
  /\ uuid = 0
  /\ lookup = NoLookup
  /\ CollaboratorsInit

NextSameName ==
  \/ \E req \in RaceRequests : StartExtract(req, FALSE)
  \/ \E self \in 1..Len(calls) : LoadFails(self)
  \/ \E self \in 1..Len(calls) : Walk(self)
  \/ \E self \in 1..Len(calls), k \in 1..MaxCalls : Then(self, k)
  \/ \E self \in 1..Len(calls) : Finalize(self)

\* One request for main on a project with same-named declarations.
SameNameSpec == InitSameName /\ [][NextSameName]_vars

\* The arguments findFunctionByName is observed with: the files a.ts and
\* c.ts, the names declared in them and one declared nowhere, no line or
\* any line of the longer file.
LookupArgs ==
  [file : {FileA, FileC}, functionName : {"main", "helper", "f", "h", "k", "v", "nothing"},
   targetLine : {undefined} \cup (1..LastLineOfFile(FileC)),
   found : {NotFound}, returned : {FALSE}]

InitFind ==
  /\ source = [d \in BodyDecls |-> <<>>]
  /\ read = {}
  /\ visitedFunctions = {}
  /\ calls = <<>>
  /\ uuid = 0
  /\ lookup \in LookupArgs
  /\ CollaboratorsInit

\* Lines 399-463: findFunctionByName returns.
Find ==
  /\ ~lookup.returned
  /\ lookup' = [lookup EXCEPT
                  !.found = findFunctionByName(lookup.file, lookup.functionName,
                                               lookup.targetLine),
                  !.returned = TRUE]
  /\ UNCHANGED <<source, read, visitedFunctions, calls, uuid>>
  /\ UNCHANGED collaborators

\* findFunctionByName applied to its arguments.
FindSpec == InitFind /\ [][Find]_vars

\* Largest number of showFlow calls made on one GraphViewProvider.
MaxShows == 2

\* Largest number of requestExport calls made on one GraphViewProvider.
MaxExports == 1

\* Largest number of traceFlowHandler calls.
MaxTraces == 2

\* Largest number of nodes of a traced flow.
MaxNodes == 2

\* Largest number of commands of the capture (set a pin, save the flow).
MaxCaptureOps == 3

\* ---------------------------------------------------- FlowStorageService

\* A stored flow: its id, its payload (name, nodes, edges, ... seen as one
\* value) and its updatedAt stamp.
NoFlow == [id |-> 0, name |-> "", updatedAt |-> 0]

FlowNames == {"a", "b"}

\* The values new Date().toISOString() can give.
Times == {1, 2}

StoredFlow(id, name, now) == [id |-> id, name |-> name, updatedAt |-> now]

\* The flows file the service is constructed on: absent, not a flows file,
\* or holding zero to two flows saved earlier (ids 1 and 2).
InitialFiles ==
  {[state |-> "missing", flows |-> <<>>], [state |-> "corrupt", flows |-> <<>>]}
  \cup {[state |-> "ok", flows |-> f] :
          f \in {<<>>, <<StoredFlow(1, "a", 1)>>,
                 <<StoredFlow(1, "a", 1), StoredFlow(2, "b", 1)>>}}

\* The ids the callers ask for: the two stored at first and one never stored.
FlowIds == {1, 2, 9}

\* The calls the extension makes: the method and its argument (a flow
\* without id for saveFlow, a whole flow for updateFlow, an id otherwise).
StorageRequests ==
     {[op |-> "saveFlow", arg |-> StoredFlow(0, n, 0)] : n \in FlowNames}
  \cup {[op |-> "updateFlow", arg |-> StoredFlow(i, "b", 1)] : i \in FlowIds}
  \cup {[op |-> m, arg |-> StoredFlow(i, "", 0)] :
          m \in {"deleteFlow", "getFlowById"}, i \in FlowIds}

\* The flows a reader finds stored in the file f.
StoredIn(f) == IF f.state = "ok" THEN f.flows ELSE <<>>

NoResult == [returned |-> FALSE, flow |-> NoFlow, ok |-> FALSE]

ReturnedFlow(f) == [returned |-> TRUE, flow |-> f, ok |-> f # NoFlow]

ReturnedBoolean(b) == [returned |-> TRUE, flow |-> NoFlow, ok |-> b]

\* One call: its method and argument, where it stands (pc: "stat", "create",
\* "read", "write", "done"), its local projectFlows and what it returned.
\* wrote tells that it called writeFlowsToFile on its projectFlows, failed
\* that this write threw, created that it wrote the initial file; stored
\* (the flows stored when it was called) and during (the calls under way
\* when it was called) are kept for the statements about it.
StorageCall(op, arg) ==
  [op |-> op, arg |-> arg, pc |-> "stat", projectFlows |-> <<>>, result |-> NoResult,
   wrote |-> FALSE, failed |-> FALSE, created |-> FALSE, stored |-> StoredIn(flowsFile),
   during |-> {k \in 1..Len(storageOps) : storageOps[k].pc # "done"}]

\* Lines 52-69 are over: the constructor's call is done, a method goes on
\* to line 74.
ensureFlowsFileExists(o) ==
  [o EXCEPT !.pc = IF o.op = "ensureFlowsFileExists" THEN "done" ELSE "read"]

\* Lines 74-87: what readFlowsFromFile returns for the file f.
readFlowsFromFile(f) == IF f.state = "ok" THEN f.flows ELSE <<>>

\* flows.findIndex((f) => f.id === id), 0 for -1.
findIndex(flows, id) ==
  IF \E i \in 1..Len(flows) : flows[i].id = id
  THEN CHOOSE i \in 1..Len(flows) :
         flows[i].id = id /\ \A j \in 1..(i - 1) : flows[j].id # id
  ELSE 0

\* Lines 108-111.
getFlowById(o, flows) ==
  [o EXCEPT !.pc = "done",
            !.projectFlows = flows,
            !.result = ReturnedFlow(IF findIndex(flows, o.arg.id) = 0 THEN NoFlow
                                    ELSE flows[findIndex(flows, o.arg.id)])]

\* Lines 116-125: up to the await of the write.
saveFlow(o, flows, id, now) ==
  [o EXCEPT !.pc = "write",
            !.projectFlows = Append(flows, StoredFlow(id, o.arg.name, now)),
            !.result = [NoResult EXCEPT !.flow = StoredFlow(id, o.arg.name, now)]]

\* An update that writes the flow at the end of the list.
updateFlowAtEnd(o, flows, now) ==
  IF findIndex(flows, o.arg.id) = 0
  THEN [o EXCEPT !.pc = "done", !.projectFlows = flows, !.result = ReturnedFlow(NoFlow)]
  ELSE [o EXCEPT !.pc = "write",
                 !.projectFlows =
                   Append(SelectSeq(flows, LAMBDA f : f.id # o.arg.id),
                          StoredFlow(o.arg.id, o.arg.name, now)),
                 !.result = [NoResult EXCEPT !.flow = StoredFlow(o.arg.id, o.arg.name, now)]]

\* Lines 131-141: up to the await of the write, or the return of line 135.
updateFlow(o, flows, now) ==
  IF findIndex(flows, o.arg.id) = 0
  THEN [o EXCEPT !.pc = "done", !.projectFlows = flows, !.result = ReturnedFlow(NoFlow)]
  ELSE [o EXCEPT !.pc = "write",
                 !.projectFlows =
                   [flows EXCEPT ![findIndex(flows, o.arg.id)] =
                      StoredFlow(o.arg.id, o.arg.name, now)],
                 !.result = [NoResult EXCEPT !.flow = StoredFlow(o.arg.id, o.arg.name, now)]]

\* A delete that writes the file whether or not it removed a flow.
deleteFlowAlwaysWrites(o, flows) ==
  [o EXCEPT !.pc = "write",
            !.projectFlows = SelectSeq(flows, LAMBDA f : f.id # o.arg.id),
            !.result = [NoResult EXCEPT
                          !.ok = Len(SelectSeq(flows, LAMBDA f : f.id # o.arg.id))
                                   < Len(flows)]]

\* Lines 147-151: up to the await of the write, or the return of line 156.
deleteFlow(o, flows) ==
  IF Len(SelectSeq(flows, LAMBDA f : f.id # o.arg.id)) < Len(flows)
  THEN [o EXCEPT !.pc = "write",
                 !.projectFlows = SelectSeq(flows, LAMBDA f : f.id # o.arg.id),
                 !.result = [NoResult EXCEPT !.ok = TRUE]]
  ELSE [o EXCEPT !.pc = "done",
                 !.projectFlows = SelectSeq(flows, LAMBDA f : f.id # o.arg.id),
                 !.result = ReturnedBoolean(FALSE)]

\* The segment of call o that follows its read of the flows.
AfterRead(o, flows, id, now) ==
  CASE o.op = "getFlowById" -> getFlowById(o, flows)
    [] o.op = "saveFlow"    -> saveFlow(o, flows, id, now)
    [] o.op = "updateFlow"  -> updateFlow(o, flows, now)
    [] o.op = "deleteFlow"  -> deleteFlow(o, flows)

InitStorage ==
  /\ source = [d \in BodyDecls |-> <<>>]
  /\ read = {}
  /\ visitedFunctions = {}
  /\ calls = <<>>
  /\ lookup = NoLookup
  /\ uuid = 2
  /\ flowsFile \in InitialFiles
  /\ ViewInit
  /\ TraceInit
  /\ CaptureInit
  /\ storageOps = <<[op |-> "ensureFlowsFileExists", arg |-> NoFlow, pc |-> "stat",
                      projectFlows |-> <<>>, result |-> NoResult, wrote |-> FALSE,
                      failed |-> FALSE, created |-> FALSE, stored |-> <<>>,
                      during |-> {}]>>

\* A public method is called: it runs up to the stat of line 54.
StartStorage(req) ==
  /\ Cardinality({i \in 1..Len(storageOps) :
                    storageOps[i].op # "ensureFlowsFileExists"}) < MaxOps
  /\ storageOps' = Append(storageOps, StorageCall(req.op, req.arg))
  /\ UNCHANGED <<flowsFile, uuid, astVars, viewVars, traceVars, captureVars>>

\* Lines 54-56: the stat resolves or rejects.
Stat(self) ==
  /\ storageOps[self].pc = "stat"
  /\ storageOps' = [storageOps EXCEPT ![self] =
                      IF flowsFile.state = "missing"
                      THEN [@ EXCEPT !.pc = "create"]
                      ELSE ensureFlowsFileExists(@)]
  /\ UNCHANGED <<flowsFile, uuid, astVars, viewVars, traceVars, captureVars>>

\* Lines 57-68 and 90-101: the directory and the initial file are written;
\* a write that throws is logged and swallowed.
Create(self, thrown) ==
  /\ storageOps[self].pc = "create"
  /\ flowsFile' = IF thrown THEN flowsFile ELSE [state |-> "ok", flows |-> <<>>]
  /\ storageOps' = [storageOps EXCEPT ![self] =
                      ensureFlowsFileExists([@ EXCEPT !.created = TRUE])]
  /\ UNCHANGED <<uuid, astVars, viewVars, traceVars, captureVars>>

\* Lines 74-87 and the method's code up to its next await or return.
ReadFile(self, now) ==
  /\ storageOps[self].pc = "read"
  /\ storageOps' = [storageOps EXCEPT ![self] =
                      AfterRead(@, readFlowsFromFile(flowsFile), uuid + 1, now)]
  /\ uuid' = IF storageOps[self].op = "saveFlow" THEN uuid + 1 ELSE uuid
  /\ UNCHANGED <<flowsFile, astVars, viewVars, traceVars, captureVars>>

\* Lines 90-101 and the return of lines 127, 143, 153: the write of the
\* call's projectFlows ends (a throw is logged and swallowed) and the method
\* returns.
WriteBack(self, thrown) ==
  /\ storageOps[self].pc = "write"
  /\ flowsFile' = IF thrown THEN flowsFile
                  ELSE [state |-> "ok", flows |-> storageOps[self].projectFlows]
  /\ storageOps' = [storageOps EXCEPT ![self] =
                      [@ EXCEPT !.pc = "done", !.wrote = TRUE, !.failed = thrown,
                                !.result.returned = TRUE,
                                !.result.ok = storageOps[self].op = "deleteFlow"
                                                \/ storageOps[self].result.flow # NoFlow]]
  /\ UNCHANGED <<uuid, astVars, viewVars, traceVars, captureVars>>

NextStorage ==
  \/ \E req \in StorageRequests : StartStorage(req)
  \/ \E self \in 1..Len(storageOps) : Stat(self)
  \/ \E self \in 1..Len(storageOps), thrown \in BOOLEAN : Create(self, thrown)
  \/ \E self \in 1..Len(storageOps), now \in Times : ReadFile(self, now)
  \/ \E self \in 1..Len(storageOps), thrown \in BOOLEAN : WriteBack(self, thrown)

\* A FlowStorageService from its construction on, its methods called while
\* earlier calls are still under way.
StorageSpec == InitStorage /\ [][NextStorage]_vars

\* ----------------------------------------------------- GraphViewProvider

\* A showFlow message: the id of the flow it is for (undefined for the null
\* payload) and whether its payload is the flow or an error text.
ShowFlowMessage(flowId, flow) ==
  [command |-> "showFlow", flowId |-> flowId, flow |-> flow, error |-> flowId # undefined /\ flow = NoFlow]

NoMessage == [command |-> "", flowId |-> undefined, flow |-> NoFlow, error |-> FALSE]

\* Lines 165-179: the messages posted once message is handed over.
postMessageToWebview(message) ==
  IF _webviewView THEN Append(posted, message) ELSE posted

\* One call of showFlow: its argument, where it stands ("await" at line
\* 112, or "done"), the getFlowById call it awaits and the message it handed
\* to postMessageToWebview (sent: the webview was there to take it).
ShowCall(flowId, pc, call, message) ==
  [flowId |-> flowId, pc |-> pc, call |-> call, message |-> message,
   sent |-> message # NoMessage /\ _webviewView]

\* The calls of public storage methods made so far.
PublicCalls ==
  Cardinality({i \in 1..Len(storageOps) : storageOps[i].op # "ensureFlowsFileExists"})

\* Lines 93-112: showFlow(flowId) up to its return or its await.
showFlow(flowId) ==
  /\ Len(shows) < MaxShows
  /\ _currentFlowId' = flowId
  /\ IF flowId = undefined
     THEN /\ posted' = postMessageToWebview(ShowFlowMessage(undefined, NoFlow))
          /\ shows' = Append(shows, ShowCall(flowId, "done", 0,
                                             ShowFlowMessage(undefined, NoFlow)))
          /\ UNCHANGED storageOps
     ELSE IF ~_webviewView
          THEN /\ shows' = Append(shows, ShowCall(flowId, "done", 0, NoMessage))
               /\ UNCHANGED <<posted, storageOps>>
          ELSE /\ PublicCalls < MaxOps
               /\ storageOps' = Append(storageOps,
                                       StorageCall("getFlowById", StoredFlow(flowId, "", 0)))
               /\ shows' = Append(shows, ShowCall(flowId, "await", Len(storageOps) + 1,
                                                  NoMessage))
               /\ UNCHANGED posted

\* The flowMaster.showFlow command and the other callers of showFlow in the
\* extension.
ShowFlow(flowId) ==
  /\ showFlow(flowId)
  /\ UNCHANGED <<_webviewView, exports, flowsFile, uuid, astVars, traceVars, captureVars>>

\* Lines 112-122: getFlowById has resolved and the flow, or the error
\* telling that there is none, is posted.
ShowFlowResumes(self) ==
  /\ shows[self].pc = "await"
  /\ storageOps[shows[self].call].pc = "done"
  /\ \E message \in {ShowFlowMessage(shows[self].flowId,
                                       storageOps[shows[self].call].result.flow)} :
       /\ posted' = postMessageToWebview(message)
       /\ shows' = [shows EXCEPT ![self] = ShowCall(@.flowId, "done", @.call, message)]
  /\ UNCHANGED <<_webviewView, _currentFlowId, exports, flowsFile,
                 storageOps, uuid, astVars, traceVars, captureVars>>

\* Lines 25-44: the view is resolved.
ResolveWebviewView ==
  /\ ~_webviewView
  /\ _webviewView' = TRUE
  /\ UNCHANGED <<_currentFlowId, posted, shows, exports, flowsFile,
                 storageOps, uuid, astVars, traceVars, captureVars>>

\* Lines 85-87: the view is disposed.
Dispose ==
  /\ _webviewView
  /\ _webviewView' = FALSE
  /\ UNCHANGED <<_currentFlowId, posted, shows, exports, flowsFile,
                 storageOps, uuid, astVars, traceVars, captureVars>>

\* Lines 47-55: the webview reports that it is ready.
WebviewReady ==
  /\ _webviewView
  /\ IF _currentFlowId # undefined
     THEN showFlow(_currentFlowId)
     ELSE /\ posted' = postMessageToWebview(ShowFlowMessage(undefined, NoFlow))
          /\ Len(posted) < MaxShows
          /\ UNCHANGED <<_currentFlowId, shows, storageOps>>
  /\ UNCHANGED <<_webviewView, exports, flowsFile, uuid, astVars, traceVars, captureVars>>

\* Lines 65-72: the webview asks for a flow, or for the current one.
GetFlowData(flowId) ==
  /\ _webviewView
  /\ IF flowId # undefined
     THEN showFlow(flowId)
     ELSE /\ _currentFlowId # undefined
          /\ showFlow(_currentFlowId)
  /\ UNCHANGED <<_webviewView, exports, flowsFile, uuid, astVars, traceVars, captureVars>>

\* Lines 73-76: the webview sends edited metadata; updateFlow is called.
\* (Lines 77-78 refresh the list and show a notice once it has returned.)
UpdateFlowMetadata(flow) ==
  /\ _webviewView
  /\ PublicCalls < MaxOps
  /\ storageOps' = Append(storageOps, StorageCall("updateFlow", flow))
  /\ UNCHANGED <<viewVars, flowsFile, uuid, astVars, traceVars, captureVars>>

\* Lines 217-219: the uuidv4 that requestExport calls.
uuidv4 == "Function not implemented."

\* One call of requestExport: its format, how its promise settled and with
\* what, and the id it posted (none: undefined).
ExportCall(format, settled, value, requestId) ==
  [format |-> format, settled |-> settled, value |-> value, requestId |-> requestId,
   available |-> _webviewView]

\* Lines 132-137: requestExport(format) returns null without a view; with a
\* view it calls uuidv4 at line 137, which throws, so that the promise of
\* the async method is rejected with that error before anything is posted.
RequestExport(format) ==
  /\ Len(exports) < MaxExports
  /\ exports' = Append(exports,
                       IF ~_webviewView
                       THEN ExportCall(format, "resolved", "null", undefined)
                       ELSE ExportCall(format, "rejected", uuidv4, undefined))
  /\ UNCHANGED <<_webviewView, _currentFlowId, posted, shows, flowsFile, storageOps, uuid,
                 astVars, traceVars, captureVars>>

\* The flows file the view's storage service is constructed on: absent, or
\* holding the flow saved first.
ViewFiles == {f \in InitialFiles : f.state = "missing" \/ Len(f.flows) = 1}

InitView ==
  /\ source = [d \in BodyDecls |-> <<>>]
  /\ read = {}
  /\ visitedFunctions = {}
  /\ calls = <<>>
  /\ lookup = NoLookup
  /\ uuid = 2
  /\ flowsFile \in ViewFiles
  /\ ViewInit
  /\ TraceInit
  /\ CaptureInit
  /\ storageOps = <<[op |-> "ensureFlowsFileExists", arg |-> NoFlow, pc |-> "stat",
                      projectFlows |-> <<>>, result |-> NoResult, wrote |-> FALSE,
                      failed |-> FALSE, created |-> FALSE, stored |-> <<>>,
                      during |-> {}]>>

NextView ==
  \/ ResolveWebviewView
  \/ Dispose
  \/ \E flowId \in {undefined, 1, 9} : ShowFlow(flowId)
  \/ \E self \in 1..Len(shows) : ShowFlowResumes(self)
  \/ WebviewReady
  \/ \E flowId \in {undefined, 1} : GetFlowData(flowId)
  \/ UpdateFlowMetadata(StoredFlow(1, "b", 1))
  \/ \E format \in {"svg", "markdown"} : RequestExport(format)
  \/ \E self \in 1..Len(storageOps) : Stat(self)
  \/ \E self \in 1..Len(storageOps), thrown \in BOOLEAN : Create(self, thrown)
  \/ \E self \in 1..Len(storageOps), now \in Times : ReadFile(self, now)
  \/ \E self \in 1..Len(storageOps), thrown \in BOOLEAN : WriteBack(self, thrown)

\* A GraphViewProvider with its storage service from their construction on.
ViewSpec == InitView /\ [][NextView]_vars

\* ------------------------------------------------------- traceFlowHandler

\* part_000 lines 9-16: clearDecorations() disposes the decorations and
\* cancels the interval currentTraceInterval refers to, if any.
clearDecorations ==
  /\ traceDecorations' = {}
  /\ intervals' = IF currentTraceInterval # 0
                  THEN intervals \ {currentTraceInterval}
                  ELSE intervals
  /\ currentTraceInterval' = 0

\* One call of traceFlowHandler: where it stands ("pick" at the awaits of
\* lines 82-87, "getFlowById" at line 98, "open" at lines 120-123, "done"),
\* the number of nodes of its flow, the step of its interval callback, and
\* whether it set its interval.  Its interval is named by its index.
TraceCall(pc) == [pc |-> pc, nodes |-> 0, step |-> 0, started |-> FALSE]

\* Lines 64-98: the handler is called, with or without a flow id.
TraceFlow(given) ==
  /\ Len(traces) < MaxTraces
  /\ clearDecorations
  /\ traces' = Append(traces, TraceCall(IF given THEN "getFlowById" ELSE "pick"))
  /\ UNCHANGED <<uuid, astVars, flowsFile, storageOps, viewVars, captureVars>>

\* Lines 82-96: there are no flows, the pick is cancelled, or a flow is
\* picked.
Picked(self, picked) ==
  /\ traces[self].pc = "pick"
  /\ traces' = [traces EXCEPT ![self].pc = IF picked THEN "getFlowById" ELSE "done"]
  /\ UNCHANGED <<traceDecorations, currentTraceInterval, intervals>>
  /\ UNCHANGED <<uuid, astVars, flowsFile, storageOps, viewVars, captureVars>>

\* Lines 135-166: setInterval; the handler returns.
IntervalSet(self, nodes) ==
  /\ currentTraceInterval' = self
  /\ intervals' = intervals \cup {self}
  /\ traces' = [traces EXCEPT ![self] =
                  [@ EXCEPT !.pc = "done", !.nodes = nodes, !.started = TRUE]]
  /\ UNCHANGED traceDecorations

\* Lines 98-135: the flow is read.  Without nodes the handler returns; with
\* the right editor active it sets its interval; with no editor and no file
\* to open it returns; else it opens the file of the first node.
FlowRead(self, nodes, editor) ==
  /\ traces[self].pc = "getFlowById"
  /\ IF nodes = 0 \/ editor = "none"
     THEN /\ traces' = [traces EXCEPT ![self].pc = "done"]
          /\ UNCHANGED <<traceDecorations, currentTraceInterval, intervals>>
     ELSE IF editor = "other"
          THEN /\ traces' = [traces EXCEPT ![self] =
                               [@ EXCEPT !.pc = "open", !.nodes = nodes]]
               /\ UNCHANGED <<traceDecorations, currentTraceInterval, intervals>>
          ELSE IntervalSet(self, nodes)
  /\ UNCHANGED <<uuid, astVars, flowsFile, storageOps, viewVars, captureVars>>

\* Lines 119-135: the file of the first node is shown, or cannot be opened.
Opened(self, thrown) ==
  /\ traces[self].pc = "open"
  /\ IF thrown
     THEN /\ traces' = [traces EXCEPT ![self].pc = "done"]
          /\ UNCHANGED <<traceDecorations, currentTraceInterval, intervals>>
     ELSE IntervalSet(self, traces[self].nodes)
  /\ UNCHANGED <<uuid, astVars, flowsFile, storageOps, viewVars, captureVars>>

\* Lines 135-164 and 18-57: the callback of interval self runs.  Past the
\* last node it calls clearDecorations(); else it highlights the node of
\* its step (or skips it: no code reference, or its file cannot be opened)
\* and moves on.
Tick(self, highlighted) ==
  /\ self \in intervals
  /\ IF traces[self].step >= traces[self].nodes
     THEN /\ clearDecorations
          /\ UNCHANGED traces
     ELSE /\ traceDecorations' = IF highlighted
                                 THEN traceDecorations \cup {<<self, traces[self].step>>}
                                 ELSE traceDecorations
          /\ traces' = [traces EXCEPT ![self].step = @ + 1]
          /\ UNCHANGED <<currentTraceInterval, intervals>>
  /\ UNCHANGED <<uuid, astVars, flowsFile, storageOps, viewVars, captureVars>>

\* The extension is activated and no command has run.
InitExtension ==
  /\ source = [d \in BodyDecls |-> <<>>]
  /\ read = {}
  /\ visitedFunctions = {}
  /\ calls = <<>>
  /\ lookup = NoLookup
  /\ uuid = 0
  /\ CollaboratorsInit

NextTrace ==
  \/ \E given \in BOOLEAN : TraceFlow(given)
  \/ \E self \in 1..Len(traces), picked \in BOOLEAN : Picked(self, picked)
  \/ \E self \in 1..Len(traces), nodes \in 0..MaxNodes,
        editor \in {"active", "other", "none"} : FlowRead(self, nodes, editor)
  \/ \E self \in 1..Len(traces), thrown \in BOOLEAN : Opened(self, thrown)
  \/ \E self \in 1..Len(traces), highlighted \in BOOLEAN : Tick(self, highlighted)

\* The flowMaster.traceFlow command run up to MaxTraces times, a later run
\* starting while an earlier one is still awaiting.
TraceSpec == InitExtension /\ [][NextTrace]_vars

\* ----------------------------------------------------- FlowCaptureService

\* The active editor's cursor: a file and a line; NoEditor when no editor
\* is active.
NoEditor == [filePath |-> <<>>, line |-> 0]

Editors == {[filePath |-> FileA, line |-> 1]}

\* Lines 224-229 and 249-254: a pin (its selection is the cursor).
Pin(editor, identifier) ==
  [filePath |-> editor.filePath, line |-> editor.line, identifier |-> identifier]

\* Lines 203-211.
createCodeReferenceFromPin(pin) ==
  IF pin = NoPin THEN undefined
  ELSE [filePath |-> pin.filePath, startLine |-> pin.line, endLine |-> pin.line,
        identifier |-> pin.identifier]

\* A context that looks at the start pin only.
updateCanSaveFlowContextOfStart(s, e) == s # NoPin

\* Lines 263-266: the value given to the context key flowMaster.canSaveFlow
\* (the setContext command is taken to act at once).
updateCanSaveFlowContext(s, e) == s # NoPin /\ e # NoPin

\* Lines 268-270.
hasPinsSet == startPin # NoPin /\ endPin # NoPin

\* Lines 369-374.
clearPins ==
  /\ startPin' = NoPin
  /\ endPin' = NoPin
  /\ canSaveFlow' = updateCanSaveFlowContext(NoPin, NoPin)

\* undefined, as captureFlow returns it.
NoCapture == [name |-> "", startPin |-> undefined, endPin |-> undefined,
              nodes |-> <<>>, edges |-> <<>>, defined |-> FALSE]

\* Lines 280-323: the name of the flow.
flowName(s, e) ==
  IF e # NoPin
  THEN IF s.filePath = e.filePath /\ s.line <= e.line
       THEN "Flow in" ELSE "Flow starting at"
  ELSE "Flow for"

\* Lines 334-340 and 343-349: the node made of a pin.
PinNode(id, pin, type) ==
  FlowNode(id, IF pin.identifier # NoName THEN "" ELSE "Selection in ",
           IF pin.identifier # NoName THEN pin.identifier ELSE pin.filePath[Len(pin.filePath)],
           IF pin.identifier # NoName THEN type ELSE "ManualStep",
           createCodeReferenceFromPin(pin))

\* Lines 325-367: what captureFlow returns once parseFunctionCalls has
\* resolved with parsedData, the pins being s and e by then and the flow
\* being named name; id is the last uuid drawn.
captured(parsedData, name, s, e, id) ==
  LET fallback == parsedData.nodes = <<>> /\ s # NoPin
      nodes == IF ~fallback THEN parsedData.nodes
               ELSE IF e = NoPin THEN <<PinNode(id + 1, s, "EntryPoint")>>
               ELSE <<PinNode(id + 1, s, "EntryPoint"), PinNode(id + 2, e, "ExitPoint")>>
      edges == IF fallback /\ e # NoPin
               THEN Append(parsedData.edges, FlowEdge(id + 3, nodes[1].id, nodes[2].id))
               ELSE parsedData.edges
  IN [name |-> name, startPin |-> createCodeReferenceFromPin(s),
      endPin |-> createCodeReferenceFromPin(e), nodes |-> nodes, edges |-> edges,
      defined |-> TRUE]

\* What parseFunctionCalls resolves with: the empty result or a flow of one
\* node.
ParsedData ==
  {EmptyResult,
   [nodes |-> <<FlowNode(9, "", "main", "EntryPoint", NoReference)>>, edges |-> <<>>,
    entryNodeId |-> 9, exitNodeId |-> null]}

\* One command: setStartPin, setEndPin or saveFlowHandler; where it stands
\* ("name": awaiting getFunctionNameAtCursor; "capture": about to call
\* captureFlow; "parse": captureFlow awaits parseFunctionCalls; "captured":
\* captureFlow has returned; "input": the input boxes are shown; "saveFlow":
\* saveCurrentFlow awaits the storage; "done"; "rejected"), the editor it
\* read, the pins at its call of captureFlow and at its return, the parsed
\* data, what captureFlow returned, and its call of the storage.
CaptureOp(op, pc, editor) ==
  [op |-> op, pc |-> pc, editor |-> editor, startAtCall |-> NoPin, endAtCall |-> NoPin,
   startAtReturn |-> NoPin, endAtReturn |-> NoPin, parsedData |-> EmptyResult,
   capturedData |-> NoCapture, returned |-> FALSE, call |-> 0]

\* Lines 272-323: captureFlow is called and returns undefined or awaits
\* parseFunctionCalls.
captureFlow(o) ==
  IF startPin = NoPin
  THEN [o EXCEPT !.pc = "captured", !.returned = TRUE]
  ELSE [o EXCEPT !.pc = "parse", !.startAtCall = startPin, !.endAtCall = endPin,
                 !.capturedData.name = flowName(startPin, endPin)]

\* The commands flowMaster.setFlowStartPin and flowMaster.setFlowEndPin,
\* lines 213-223 and 238-248: with no editor a message is shown; else the
\* function at the cursor is looked up.
SetPin(op, editor) ==
  /\ Len(captureOps) < MaxCaptureOps
  /\ captureOps' = Append(captureOps,
                          CaptureOp(op, IF editor = NoEditor THEN "done" ELSE "name", editor))
  /\ UNCHANGED <<startPin, endPin, canSaveFlow>>
  /\ UNCHANGED <<uuid, astVars, flowsFile, storageOps, viewVars, traceVars>>

\* Lines 224-236, 249-261 and 429: getFunctionNameAtCursor resolves and the
\* pin is set, or it rejects.
NameFound(self, identifier, thrown) ==
  /\ captureOps[self].pc = "name"
  /\ IF thrown
     THEN /\ captureOps' = [captureOps EXCEPT ![self].pc = "rejected"]
          /\ UNCHANGED <<startPin, endPin, canSaveFlow>>
     ELSE /\ captureOps' = [captureOps EXCEPT ![self].pc =
                              IF captureOps[self].op = "saveFlowHandler"
                              THEN "capture" ELSE "done"]
          /\ IF captureOps[self].op = "setEndPin"
             THEN /\ endPin' = Pin(captureOps[self].editor, identifier)
                  /\ UNCHANGED startPin
             ELSE /\ startPin' = Pin(captureOps[self].editor, identifier)
                  /\ UNCHANGED endPin
          /\ canSaveFlow' = updateCanSaveFlowContext(startPin', endPin')
  /\ UNCHANGED <<uuid, astVars, flowsFile, storageOps, viewVars, traceVars>>

\* The command flowMaster.saveFlow, lines 420-440: with both pins set
\* captureFlow is called; else the start pin is set from the editor, if
\* there is one.
SaveFlowHandler(editor) ==
  /\ Len(captureOps) < MaxCaptureOps
  /\ captureOps' = Append(captureOps,
       IF hasPinsSet THEN captureFlow(CaptureOp("saveFlowHandler", "capture", editor))
       ELSE CaptureOp("saveFlowHandler", IF editor = NoEditor THEN "done" ELSE "name",
                      editor))
  /\ UNCHANGED <<startPin, endPin, canSaveFlow>>
  /\ UNCHANGED <<uuid, astVars, flowsFile, storageOps, viewVars, traceVars>>

\* Line 440, after the awaited setStartPin: captureFlow is called.
Capture(self) ==
  /\ captureOps[self].pc = "capture"
  /\ captureOps' = [captureOps EXCEPT ![self] = captureFlow(@)]
  /\ UNCHANGED <<startPin, endPin, canSaveFlow>>
  /\ UNCHANGED <<uuid, astVars, flowsFile, storageOps, viewVars, traceVars>>

\* Lines 325-367: parseFunctionCalls resolves and captureFlow returns.
Parsed(self, parsedData) ==
  /\ captureOps[self].pc = "parse"
  /\ captureOps' = [captureOps EXCEPT ![self] =
       [@ EXCEPT !.pc = "captured", !.returned = TRUE, !.parsedData = parsedData,
                 !.startAtReturn = startPin, !.endAtReturn = endPin,
                 !.capturedData = captured(parsedData, @.name, startPin, endPin, uuid)]]
  /\ uuid' = IF parsedData.nodes = <<>> /\ startPin # NoPin
             THEN uuid + (IF endPin = NoPin THEN 1 ELSE 3)
             ELSE uuid
  /\ UNCHANGED <<startPin, endPin, canSaveFlow>>
  /\ UNCHANGED <<astVars, flowsFile, storageOps, viewVars, traceVars>>

\* Lines 440-448: the handler resumes; without a node it clears the pins
\* and returns, else it asks for the details.
Captured(self) ==
  /\ captureOps[self].pc = "captured"
  /\ IF captureOps[self].capturedData.nodes = <<>>
     THEN /\ clearPins
          /\ captureOps' = [captureOps EXCEPT ![self].pc = "done"]
     ELSE /\ captureOps' = [captureOps EXCEPT ![self].pc = "input"]
          /\ UNCHANGED <<startPin, endPin, canSaveFlow>>
  /\ UNCHANGED <<uuid, astVars, flowsFile, storageOps, viewVars, traceVars>>

\* Lines 448-486 and 376-400: the name is asked for; cancelled, the handler
\* returns; else saveCurrentFlow calls saveFlow of the storage.
Input(self, cancelled) ==
  /\ captureOps[self].pc = "input"
  /\ IF cancelled
     THEN /\ captureOps' = [captureOps EXCEPT ![self].pc = "done"]
          /\ UNCHANGED storageOps
     ELSE /\ PublicCalls < MaxOps
          /\ storageOps' = Append(storageOps, StorageCall("saveFlow", StoredFlow(0, "a", 0)))
          /\ captureOps' = [captureOps EXCEPT ![self] =
                              [@ EXCEPT !.pc = "saveFlow", !.call = Len(storageOps) + 1]]
  /\ UNCHANGED <<startPin, endPin, canSaveFlow>>
  /\ UNCHANGED <<uuid, astVars, flowsFile, viewVars, traceVars>>

\* Lines 400-406: saveFlow has resolved; the pins are cleared and the saved
\* flow is shown.
Saved(self) ==
  /\ captureOps[self].pc = "saveFlow"
  /\ storageOps[captureOps[self].call].pc = "done"
  /\ clearPins
  /\ captureOps' = [captureOps EXCEPT ![self].pc = "done"]
  /\ showFlow(storageOps[captureOps[self].call].result.flow.id)
  /\ UNCHANGED <<_webviewView, exports, uuid, astVars, flowsFile, traceVars>>

NextCapture ==
  \/ \E op \in {"setStartPin", "setEndPin"}, editor \in Editors \cup {NoEditor} :
       SetPin(op, editor)
  \/ \E self \in 1..Len(captureOps), identifier \in {NoName, "main"}, thrown \in BOOLEAN :
       NameFound(self, identifier, thrown)
  \/ \E editor \in Editors \cup {NoEditor} : SaveFlowHandler(editor)
  \/ \E self \in 1..Len(captureOps) : Capture(self)
  \/ \E self \in 1..Len(captureOps), parsedData \in ParsedData : Parsed(self, parsedData)
  \/ \E self \in 1..Len(captureOps) : Captured(self)
  \/ \E self \in 1..Len(captureOps), cancelled \in BOOLEAN : Input(self, cancelled)
  \/ \E self \in 1..Len(captureOps) : Saved(self)
  \/ \E self \in 1..Len(storageOps) : Stat(self)
  \/ \E self \in 1..Len(storageOps) : ReadFile(self, 1)
  \/ \E self \in 1..Len(storageOps) : WriteBack(self, FALSE)

\* The three commands of the capture run up to MaxCaptureOps times, a later
\* one starting while an earlier one is awaiting.
CaptureSpec == InitExtension /\ [][NextCapture]_vars

\* ------------------------------------------------------ notions of the claims

NodeIds(nodes) == {nodes[i].id : i \in 1..Len(nodes)}

KeyOf(c) == VisitedKey(c.filePath, c.functionName, c.startLine, c.endLine)

\* The top-level invocation has returned.
TopDone == calls # <<>> /\ calls[1].pc = "done"

\* Invocation i walked a scope: it has its entry and exit nodes.
HasWalked(i) == calls[i].currentScopeEntryNodeId # null

\* The entry step of a scope: labelled with the bare function name, or the
\* block / file entry of a top-level request.
IsEntryStep(n) == n.label.tag \in {"", "Code Block", "File"}

IsExitStep(n) == n.label.tag \in {"Exit ", "Exit Block", "Exit File"}

IsCallStep(n) == n.label.tag = "Call: "

\* The invocation that made the recursive call i, 0 for the top-level one.
ParentOf(i) ==
  IF \E j \in 1..Len(calls) : \E k \in 1..Len(calls[j].promises) :
       calls[j].promises[k].child = i
  THEN CHOOSE j \in 1..Len(calls) : \E k \in 1..Len(calls[j].promises) :
         calls[j].promises[k].child = i
  ELSE 0

\* The nodes invocation i made itself (not appended from a sub-result).
OwnNodes(i) ==
  SelectSeq(calls[i].localNodes,
            LAMBDA n : \A k \in 1..Len(calls[i].promises) :
                         n.id \notin NodeIds(calls[calls[i].promises[k].child].result.nodes))

\* The call expressions in the scope of invocation i (after its walk).
ScanOf(i) ==
  IF calls[i].functionName # NoName
  THEN IF findFunctionByName(calls[i].filePath, calls[i].functionName,
                             calls[i].startLine) \in BodyDecls
       THEN NodesOf(source, findFunctionByName(calls[i].filePath, calls[i].functionName,
                                               calls[i].startLine))
       ELSE <<>>
  ELSE NodesOfFile(source, calls[i].filePath)

\* The node ids reachable from the ids in `seen` along the edges.
RECURSIVE ReachableFrom(_, _)
ReachableFrom(seen, edges) ==
  LET more == {edges[i].to : i \in {j \in 1..Len(edges) : edges[j].from \in seen}}
  IN  IF more \subseteq seen THEN seen ELSE ReachableFrom(seen \cup more, edges)

HasEdge(edges, from, to) ==
  \E i \in 1..Len(edges) :
    edges[i].from = from /\ edges[i].to = to /\ edges[i].type = "DirectCall"

\* ---------------------------------------------------------------------- C1

\* C1: a top-level extract eventually returns, whatever the call graph
\* (self-recursion and mutual cycles included): every invocation that was
\* started, the top-level one and each recursive branch, reaches its
\* returned state, so every joint await completes.
C1_ExtractTerminates ==
  (calls # <<>>) ~> (\A i \in 1..Len(calls) : calls[i].pc = "done")

\* A mutual cycle was closed (a branch two levels down asked for the key of
\* the top-level scope again) and the top-level extract has returned.
C1_CycleReturned ==
  /\ TopDone
  /\ \E i \in 1..Len(calls) :
       /\ ParentOf(i) > 1
       /\ KeyOf(calls[i]) = KeyOf(calls[1])
       /\ ~calls[i].inserted

\* ---------------------------------------------------------------------- C2

\* C2: within one top-level request every VisitedKey is expanded at most
\* once: no two invocations pass the visited check with the same key (the
\* check and the insertion are one synchronous step), and the merged graph
\* has at most one entry step per (file, scope).
C2_ExpandedAtMostOnce ==
  /\ \A i, j \in 1..Len(calls) :
       (i # j /\ calls[i].inserted /\ calls[j].inserted)
         => KeyOf(calls[i]) # KeyOf(calls[j])
  /\ \A i \in 1..Len(calls) : calls[i].inserted => KeyOf(calls[i]) \in visitedFunctions
  /\ TopDone =>
       \A a, b \in 1..Len(calls[1].result.nodes) :
         LET na == calls[1].result.nodes[a]
             nb == calls[1].result.nodes[b]
         IN  (a # b /\ IsEntryStep(na) /\ IsEntryStep(nb))
               => <<na.label, na.codeReference.filePath>>
                    # <<nb.label, nb.codeReference.filePath>>

\* Two branches of one request asked for the same key while the first was
\* still in flight, and the request has returned.
C2_SameKeyTwice ==
  /\ TopDone
  /\ \E i, j \in 1..Len(calls) :
       /\ i < j /\ i > 1
       /\ KeyOf(calls[i]) = KeyOf(calls[j])
       /\ calls[i].inserted /\ ~calls[j].inserted
       /\ HasWalked(i)

\* ---------------------------------------------------------------------- C3

\* The scenario of C3: a.ts defines main, whose body is the single call
\* helper(), and an empty helper; extract(a.ts, "main") has returned.
C3_Scenario ==
  /\ TopDone
  /\ calls[1].filePath = FileA /\ calls[1].functionName = "main"
  /\ HasWalked(1)
  /\ {"main", "helper"} \subseteq read
  /\ source["main"] = <<[callee |-> "helper", depth |-> 0]>>
  /\ source["helper"] = <<>>

IsLabelled(n, tag, name) == n.label = [tag |-> tag, name |-> name]

\* C3: in the scenario the result has exactly the steps Entry(main),
\* Call(helper), Entry(helper), Exit(helper), Exit(main), and its flows
\* include Entry(main)->Call(helper), Call(helper)->Entry(helper) and
\* Exit(helper)->Exit(main).
C3_ScenarioGraph ==
  C3_Scenario =>
    LET r == calls[1].result
        Step(tag, name) == {r.nodes[i].id : i \in {j \in 1..Len(r.nodes) :
                                                     IsLabelled(r.nodes[j], tag, name)}}
    IN  /\ Len(r.nodes) = 5
        /\ \E em \in Step("", "main"), ch \in Step("Call: ", "helper"),
              eh \in Step("", "helper"), xh \in Step("Exit ", "helper"),
              xm \in Step("Exit ", "main") :
             /\ HasEdge(r.edges, em, ch)
             /\ HasEdge(r.edges, ch, eh)
             /\ HasEdge(r.edges, xh, xm)

\* ---------------------------------------------------------------------- C4

\* C4: the result of a top-level extract is one connected graph: every
\* step of the merged result, the Exit step of every expanded scope
\* included, is reachable from the top-level entry step along the flows.
C4_Connected ==
  TopDone =>
    NodeIds(calls[1].result.nodes)
      \subseteq ReachableFrom({calls[1].result.entryNodeId}, calls[1].result.edges)

\* ---------------------------------------------------------------------- C5

\* The recursive calls of invocation i.
Promises(i) == {calls[i].promises[k] : k \in 1..Len(calls[i].promises)}

\* C5 as stated: for every recursive expansion launched, the graph the
\* caller returns has a DirectCall flow from the call-site step to the
\* sub-result's entry step.
C5_EveryExpansionLinked ==
  \A i \in 1..Len(calls) :
    calls[i].pc = "done" =>
      \A p \in Promises(i) :
        /\ calls[p.child].result.entryNodeId \in NodeIds(calls[i].result.nodes)
        /\ HasEdge(calls[i].result.edges, p.callSiteNodeId,
                   calls[p.child].result.entryNodeId)

\* C5 amended: for every recursive expansion whose sub-result has a non-null
\* entry id (it was not cut short by the visited guard or a failed load),
\* the graph the caller returns, and the merged top-level graph, have a
\* DirectCall flow from the call-site step to the sub-result's entry step.
C5_NonEmptyExpansionLinked ==
  \A i \in 1..Len(calls) :
    \A p \in Promises(i) :
      calls[p.child].result.entryNodeId # null =>
        /\ calls[i].pc = "done" =>
             /\ calls[p.child].result.entryNodeId \in NodeIds(calls[i].result.nodes)
             /\ HasEdge(calls[i].result.edges, p.callSiteNodeId,
                        calls[p.child].result.entryNodeId)
        /\ TopDone =>
             HasEdge(calls[1].result.edges, p.callSiteNodeId,
                     calls[p.child].result.entryNodeId)

\* A caller two levels down has returned a graph holding the expansion of
\* one of its calls, and the top-level extract has returned.
C5_NestedExpansionMerged ==
  /\ TopDone
  /\ \E i \in 2..Len(calls) : \E p \in Promises(i) :
       calls[p.child].result.entryNodeId # null

\* ---------------------------------------------------------------------- C6

\* C6: in the result of every extract call, top-level or recursive, the from
\* and the to of every flow are ids of steps of that result.
C6_NoDanglingFlow ==
  \A i \in 1..Len(calls) :
    calls[i].pc = "done" =>
      \A e \in 1..Len(calls[i].result.edges) :
        /\ calls[i].result.edges[e].from \in NodeIds(calls[i].result.nodes)
        /\ calls[i].result.edges[e].to \in NodeIds(calls[i].result.nodes)

\* A caller has returned a result that holds an exit-to-caller stitch edge.
C6_StitchedResult ==
  \E i \in 1..Len(calls) :
    /\ calls[i].pc = "done"
    /\ \E p \in Promises(i) :
         /\ calls[p.child].result.exitNodeId # null
         /\ \E e \in 1..Len(calls[i].result.edges) :
              /\ calls[i].result.edges[e].from = calls[p.child].result.exitNodeId
              /\ calls[i].result.edges[e].to \in NodeIds(OwnNodes(i))

\* ---------------------------------------------------------------------- C7

\* C7: a result with at least one step has non-null entryStepId and
\* exitStepId, and whenever either is non-null it is the id of a step of the
\* result.
C7_EntryExitPresent ==
  \A i \in 1..Len(calls) :
    calls[i].pc = "done" =>
      LET r == calls[i].result
      IN  /\ Len(r.nodes) > 0 => (r.entryNodeId # null /\ r.exitNodeId # null)
          /\ r.entryNodeId # null => r.entryNodeId \in NodeIds(r.nodes)
          /\ r.exitNodeId # null => r.exitNodeId \in NodeIds(r.nodes)

\* Both shapes of a non-empty result have been returned: a walked scope with
\* its Entry and Exit, and the single Note of an unlocated callee.
C7_NonEmptyResults ==
  /\ \E i \in 1..Len(calls) : calls[i].pc = "done" /\ Len(calls[i].result.nodes) = 1
  /\ \E i \in 1..Len(calls) : calls[i].pc = "done" /\ Len(calls[i].result.nodes) > 2

\* ---------------------------------------------------------------------- C8

\* C8: extracting a scope whose body has no call expression yields exactly
\* two steps, its Entry and its Exit, and exactly one flow, from the Entry
\* to the Exit.
C8_EmptyScope ==
  \A i \in 1..Len(calls) :
    (calls[i].pc = "done" /\ HasWalked(i) /\ ScanOf(i) = <<>>) =>
      LET r == calls[i].result
      IN  /\ Len(r.nodes) = 2
          /\ IsEntryStep(r.nodes[1]) /\ r.nodes[1].id = r.entryNodeId
          /\ IsExitStep(r.nodes[2]) /\ r.nodes[2].id = r.exitNodeId
          /\ Len(r.edges) = 1
          /\ r.edges[1].from = r.entryNodeId /\ r.edges[1].to = r.exitNodeId

\* A scope without call expressions has been extracted, as a recursive
\* expansion.
C8_EmptyScopeExtracted ==
  \E i \in 2..Len(calls) : calls[i].pc = "done" /\ HasWalked(i) /\ ScanOf(i) = <<>>

\* ---------------------------------------------------------------------- C9

\* The top-level request has a line window.
Windowed == calls # <<>> /\ calls[1].startLine # undefined /\ calls[1].endLine # undefined

\* The step n stands for a call expression of the requested file that lies
\* strictly outside the window (codeReference lines are 0-indexed).
StrictlyOutside(n) ==
  /\ IsCallStep(n)
  /\ n.codeReference.filePath = calls[1].filePath
  /\ \/ n.codeReference.endLine + 1 < calls[1].startLine
     \/ n.codeReference.startLine + 1 > calls[1].endLine

\* C9 as stated: the result of a windowed top-level extract holds no step
\* for a call expression of the file strictly outside the window, whatever
\* the calls inside the window resolve to.
C9_NoStepOutsideWindow ==
  (Windowed /\ TopDone) =>
    \A k \in 1..Len(calls[1].result.nodes) : ~StrictlyOutside(calls[1].result.nodes[k])

\* C9 amended: the walk of the windowed scope itself makes no step for a
\* call expression strictly outside the window; a step for such a call is
\* in the result only as part of the sub-result of a recursive expansion of
\* a callee called inside the window.
C9_NoOwnStepOutsideWindow ==
  (Windowed /\ HasWalked(1)) =>
    /\ \A k \in 1..Len(OwnNodes(1)) : ~StrictlyOutside(OwnNodes(1)[k])
    /\ TopDone =>
         \A k \in 1..Len(calls[1].result.nodes) :
           StrictlyOutside(calls[1].result.nodes[k]) =>
             \E p \in Promises(1) :
               calls[1].result.nodes[k].id \in NodeIds(calls[p.child].result.nodes)

\* A windowed extract has returned for a file that has call expressions both
\* inside the window (with a step) and strictly outside it.
C9_CallsOutsideWindow ==
  /\ Windowed /\ TopDone
  /\ Len(OwnNodes(1)) > 2
  /\ \E k \in 1..Len(ScanOf(1)) :
       \/ ScanOf(1)[k].endLine < calls[1].startLine
       \/ ScanOf(1)[k].startLine > calls[1].endLine

\* --------------------------------------------------------------------- C10

\* The callee of a call-site step does not resolve to an in-project function
\* declaration: it has no symbol, or its declaration is under node_modules.
UnresolvedOrExternal(n) ==
  /\ IsCallStep(n)
  /\ \/ n.label.name \notin DeclNames
     \/ "node_modules" \in {Declarations[n.label.name].file[k] :
                               k \in 1..Len(Declarations[n.label.name].file)}

\* The call-site steps invocation i made for the call expression at the
\* given place.
OwnCallSteps(i, file, line) ==
  {k \in 1..Len(OwnNodes(i)) :
     /\ IsCallStep(OwnNodes(i)[k])
     /\ OwnNodes(i)[k].codeReference.filePath = file
     /\ OwnNodes(i)[k].codeReference.startLine = line}

\* C10: a call whose callee is unresolved or external gets exactly one
\* Function step for its call site, launches no recursive expansion, and no
\* Entry/Exit pair for that callee enters the result.
C10_UnresolvedCallNotExpanded ==
  \A i \in 1..Len(calls) :
    HasWalked(i) =>
      /\ \A k \in 1..Len(OwnNodes(i)) :
           UnresolvedOrExternal(OwnNodes(i)[k]) =>
             /\ OwnNodes(i)[k].type = "Function"
             /\ Cardinality(OwnCallSteps(i, OwnNodes(i)[k].codeReference.filePath,
                                         OwnNodes(i)[k].codeReference.startLine)) = 1
             /\ \A p \in Promises(i) : p.callSiteNodeId # OwnNodes(i)[k].id
             /\ \A j \in 1..Len(calls) : calls[j].callerNodeId # OwnNodes(i)[k].id
      /\ \A k \in 1..Len(calls[i].localNodes) :
           (IsEntryStep(calls[i].localNodes[k]) \/ IsExitStep(calls[i].localNodes[k]))
             => calls[i].localNodes[k].label.name \notin {"unknown", "libfn"}

\* One scope has been extracted with a call to an unresolved identifier and
\* a call to a function of an external library.
C10_UnresolvedAndExternalCalls ==
  \E i \in 1..Len(calls) :
    /\ calls[i].pc = "done" /\ HasWalked(i)
    /\ \E k \in 1..Len(OwnNodes(i)) : OwnNodes(i)[k].label = [tag |-> "Call: ", name |-> "unknown"]
    /\ \E k \in 1..Len(OwnNodes(i)) : OwnNodes(i)[k].label = [tag |-> "Call: ", name |-> "libfn"]

\* --------------------------------------------------------------------- C11

\* The top-level invocation whose request invocation i belongs to.
RECURSIVE RootOf(_)
RootOf(i) == IF ParentOf(i) = 0 THEN i ELSE RootOf(ParentOf(i))

\* The invocations of the request started by top-level invocation t.
TreeOf(t) == {i \in 1..Len(calls) : RootOf(i) = t}

\* C11: overlapping top-level requests do not interfere.  The visited set
\* each request sees is its own: within one request at most one invocation
\* per key passes the visited check, and an invocation is turned away as
\* visited only by a key an earlier invocation of the same request inserted
\* (as when the request runs alone).
C11_RequestsDoNotInterfere ==
  \A t \in TopLevel :
    /\ \A i, j \in TreeOf(t) :
         (i # j /\ calls[i].inserted /\ calls[j].inserted) => KeyOf(calls[i]) # KeyOf(calls[j])
    /\ \A i \in TreeOf(t) :
         ~calls[i].inserted =>
           \E j \in TreeOf(t) : j < i /\ calls[j].inserted /\ KeyOf(calls[j]) = KeyOf(calls[i])

\* Two top-level requests were in flight at the same time.
C11_Overlapped == Cardinality(TopLevel) = 2

\* --------------------------------------------------------------------- C12

\* Invocation i found its key in the visited set.
TurnedAway(i) == ~calls[i].inserted

\* C12: an invocation that finds its key in the visited set has returned
\* the empty result (no steps, no flows, null entry and exit) at once and
\* without touching the set, which holds exactly the keys of the
\* invocations that passed the check; and the callback the caller runs on
\* that result adds no step and no flow.
C12_VisitedReturnsEmpty ==
  /\ [](\A i \in 1..Len(calls) :
          TurnedAway(i) => (calls[i].pc = "done" /\ calls[i].result = EmptyResult))
  /\ [](visitedFunctions = {KeyOf(calls[i]) : i \in {j \in 1..Len(calls) : calls[j].inserted}})
  /\ [][\A i \in 1..Len(calls) : \A k \in 1..Len(calls[i].promises) :
          ( /\ TurnedAway(calls[i].promises[k].child)
            /\ ~calls[i].promises[k].settled
            /\ calls'[i].promises[k].settled )
          => /\ calls'[i].localNodes = calls[i].localNodes
             /\ calls'[i].localEdges = calls[i].localEdges]_vars

\* A caller has run the callback of a recursive call that was turned away.
C12_TurnedAwayMerged ==
  \E i \in 1..Len(calls) : \E k \in 1..Len(calls[i].promises) :
    TurnedAway(calls[i].promises[k].child) /\ calls[i].promises[k].settled

\* --------------------------------------------------------------------- C13

\* Invocation i looked for its named function in a loaded file and the
\* search of findFunctionByName found nothing.
NamedNotFound(i) ==
  /\ calls[i].inserted /\ calls[i].pc = "done"
  /\ calls[i].filePath \notin Unreadable
  /\ calls[i].functionName # NoName
  /\ findFunctionByName(calls[i].filePath, calls[i].functionName, calls[i].startLine)
       = NotFound

\* The result is the single Note step "Unresolved: <name>".
IsUnresolvedNote(r, name) ==
  /\ Len(r.nodes) = 1
  /\ r.nodes[1].label = [tag |-> "Unresolved: ", name |-> name]
  /\ r.nodes[1].type = "Note"
  /\ r.edges = <<>>
  /\ r.entryNodeId = r.nodes[1].id /\ r.exitNodeId = r.nodes[1].id

\* C13: when the named function is not found, a top-level extract returns
\* the empty result and a recursive expansion returns exactly one Note step
\* "Unresolved: <name>" with no flows and entry = exit = that step; the
\* branch ends there without stopping its siblings: a caller that has
\* returned has merged every sibling's result.
C13_NotFound ==
  \A i \in 1..Len(calls) :
    NamedNotFound(i) =>
      /\ calls[i].promises = <<>>
      /\ ~calls[i].isRecursiveCall => calls[i].result = EmptyResult
      /\ calls[i].isRecursiveCall =>
           /\ IsUnresolvedNote(calls[i].result, calls[i].functionName)
           /\ calls[ParentOf(i)].pc = "done" =>
                \A p \in Promises(ParentOf(i)) :
                  /\ p.settled
                  /\ NodeIds(calls[p.child].result.nodes)
                       \subseteq NodeIds(calls[ParentOf(i)].result.nodes)

\* A caller has returned whose two recursive calls were one to a function
\* that is not found and one to a function that was walked.
C13_NoteBesideSibling ==
  \E i \in 2..Len(calls) :
    /\ NamedNotFound(i)
    /\ calls[ParentOf(i)].pc = "done"
    /\ \E p \in Promises(ParentOf(i)) : p.child # i /\ HasWalked(p.child)

\* --------------------------------------------------------------------- C14

\* The load or refresh of the file of invocation i has failed.
LoadFailed(i) ==
  calls[i].inserted /\ calls[i].filePath \in Unreadable /\ calls[i].pc # "load"

\* C14: a branch whose file fails to load has returned the empty result
\* after showing the diagnostic, and the failure stays in the branch: when
\* the caller has returned, the callback of every recursive call of its
\* batch has run and the steps of every sibling's result are in the caller's
\* result.
C14_LoadFailureStaysInBranch ==
  \A i \in 1..Len(calls) :
    LoadFailed(i) =>
      /\ calls[i].pc = "done"
      /\ calls[i].result = EmptyResult
      /\ calls[i].reported
      /\ (ParentOf(i) # 0 /\ calls[ParentOf(i)].pc = "done") =>
           \A p \in Promises(ParentOf(i)) :
             /\ p.settled
             /\ NodeIds(calls[p.child].result.nodes)
                  \subseteq NodeIds(calls[ParentOf(i)].result.nodes)

\* A caller has returned one of whose recursive calls failed to load its
\* file while a sibling was walked.
C14_FailedBesideSibling ==
  \E i \in 2..Len(calls) :
    /\ LoadFailed(i)
    /\ calls[ParentOf(i)].pc = "done"
    /\ \E p \in Promises(ParentOf(i)) : p.child # i /\ HasWalked(p.child)

\* --------------------------------------------------------------------- C15

\* The bounds of invocation i are malformed: its end line is before its
\* start line.
Malformed(i) ==
  /\ calls[i].startLine # undefined /\ calls[i].endLine # undefined
  /\ calls[i].endLine < calls[i].startLine

\* C15: a request with malformed bounds is rejected before any traversal:
\* once its file is loaded it has returned, with no steps, no flows and null
\* entry and exit, and it has made no step of its own.
C15_MalformedBoundsRejected ==
  \A i \in 1..Len(calls) :
    (Malformed(i) /\ calls[i].pc # "load") =>
      /\ calls[i].pc = "done"
      /\ calls[i].result = EmptyResult
      /\ calls[i].localNodes = <<>>

\* A request with malformed bounds has returned.
C15_MalformedReturned ==
  \E i \in 1..Len(calls) : Malformed(i) /\ calls[i].pc = "done"

\* --------------------------------------------------------------------- C16

\* The records of the sequence have pairwise distinct ids.
DistinctIds(seq) ==
  \A a, b \in 1..Len(seq) : a # b => seq[a].id # seq[b].id

\* C16: in the merged result of a top-level extract, and in every
\* sub-result merged into it, the step ids are pairwise distinct and the
\* flow ids are pairwise distinct.
C16_IdsUnique ==
  \A i \in 1..Len(calls) :
    calls[i].pc = "done" =>
      DistinctIds(calls[i].result.nodes) /\ DistinctIds(calls[i].result.edges)

\* A top-level extract has returned a result into which the sub-results of
\* two recursive calls were merged.
C16_TwoSubResultsMerged ==
  /\ TopDone
  /\ \E i, j \in 2..Len(calls) :
       /\ i # j
       /\ Len(calls[i].result.nodes) > 0 /\ Len(calls[j].result.nodes) > 0
       /\ NodeIds(calls[i].result.nodes) \subseteq NodeIds(calls[1].result.nodes)
       /\ NodeIds(calls[j].result.nodes) \subseteq NodeIds(calls[1].result.nodes)

\* --------------------------------------------------------------------- C17

\* The category of a declaration in the stated search order, 0 if it is in
\* none: (1) top-level named function, (2) method of a class, (3) class
\* property whose value is an arrow function or function literal,
\* (4) top-level variable initialised with an arrow function or function
\* literal.
Category(d) ==
  IF Declarations[d].container = "top" /\ Declarations[d].kind = "FunctionDeclaration"
  THEN 1
  ELSE IF Declarations[d].container = "class" /\ Declarations[d].kind = "MethodDeclaration"
  THEN 2
  ELSE IF Declarations[d].container = "class"
          /\ Declarations[d].kind \in {"ArrowFunction", "FunctionExpression"}
  THEN 3
  ELSE IF Declarations[d].container = "top"
          /\ Declarations[d].kind \in {"ArrowFunction", "FunctionExpression"}
  THEN 4
  ELSE 0

\* The declarations of the looked-up file of some category that have the
\* looked-up name and, if a line is given, contain it.
Matching ==
  {d \in DeclNames :
     /\ Declarations[d].file = lookup.file
     /\ Category(d) > 0
     /\ Declarations[d].name = lookup.functionName
     /\ (lookup.targetLine = undefined
         \/ (StartLineOf(d) <= lookup.targetLine /\ lookup.targetLine <= EndLineOf(d)))}

\* d comes before e in the global order: by category, then document order.
Before(d, e) ==
  \/ Category(d) < Category(e)
  \/ Category(d) = Category(e) /\ Declarations[d].slot <= Declarations[e].slot

\* C17: findFunctionByName returns the first match in the global order
\* (1) top-level functions, (2) methods of any class, (3) function-valued
\* class properties, (4) function-valued top-level variables; a later
\* category is returned only if no earlier one matches, and nothing is
\* returned if none matches.
C17_GlobalSearchOrder ==
  lookup.returned =>
    IF Matching = {}
    THEN lookup.found = NotFound
    ELSE /\ lookup.found \in Matching
         /\ \A e \in Matching : Before(lookup.found, e)

\* A lookup has returned for a name that has matches in two categories.
C17_TwoCategoriesMatch ==
  /\ lookup.returned
  /\ \E d, e \in Matching : Category(d) # Category(e)

\* --------------------------------------------------------------------- C18

\* The declarations findFunctionByName tests: functions of the file,
\* methods and arrow-function properties of its classes, and variables of
\* the file initialised with an arrow function or a function expression.
Searched(d) ==
  \/ Declarations[d].container = "top"
     /\ Declarations[d].kind \in {"FunctionDeclaration", "ArrowFunction", "FunctionExpression"}
  \/ Declarations[d].container = "class"
     /\ Declarations[d].kind \in {"MethodDeclaration", "ArrowFunction"}

\* The candidates with the looked-up name in the looked-up file.
SameNamed ==
  {d \in DeclNames : /\ Declarations[d].file = lookup.file
                     /\ Searched(d)
                     /\ Declarations[d].name = lookup.functionName}

\* The span of d contains the line, both ends included.
Contains(d, line) == StartLineOf(d) <= line /\ line <= EndLineOf(d)

\* C18: with an anchor line, a same-named candidate is accepted only if its
\* span contains the line, both ends included: the declaration returned is a
\* same-named one that contains the anchor, and nothing is returned exactly
\* when no same-named candidate contains it.
C18_AnchorSelects ==
  (lookup.returned /\ lookup.targetLine # undefined) =>
    /\ lookup.found # NotFound =>
         (lookup.found \in SameNamed /\ Contains(lookup.found, lookup.targetLine))
    /\ lookup.found = NotFound <=>
         ~\E d \in SameNamed : Contains(d, lookup.targetLine)

\* A lookup anchored on the last line of one of several same-named
\* declarations has returned that declaration, which is not the first of
\* them in the file.
C18_AnchorOnLastLine ==
  /\ lookup.returned
  /\ lookup.found # NotFound
  /\ lookup.targetLine = EndLineOf(lookup.found)
  /\ \E d \in SameNamed : Declarations[d].slot < Declarations[lookup.found].slot

\* --------------------------------------------------------------------- C19

\* A step without its id.
StepOf(n) == [label |-> n.label, type |-> n.type, codeReference |-> n.codeReference]

\* The step of the result r that has the given id.
StepWithId(r, id) == StepOf(r.nodes[CHOOSE k \in 1..Len(r.nodes) : r.nodes[k].id = id])

\* The graph of a result up to the renaming of its ids: its steps, and its
\* flows as pairs of steps.
GraphOf(r) ==
  [steps |-> {StepOf(r.nodes[k]) : k \in 1..Len(r.nodes)},
   flows |-> {<<StepWithId(r, r.edges[e].from), StepWithId(r, r.edges[e].to)>> :
                e \in 1..Len(r.edges)}]

\* The keys the request of top-level invocation t expanded.
ExpandedBy(t) == {KeyOf(calls[i]) : i \in {j \in TreeOf(t) : HasWalked(j)}}

\* C19: for a fixed project and request the merged result does not depend
\* on the order in which the sub-extractions complete: two runs of the same
\* request return the same graph up to the renaming of ids and expand the
\* same scopes.
C19_Deterministic ==
  \A s, t \in TopLevel :
    (calls[s].pc = "done" /\ calls[t].pc = "done" /\ KeyOf(calls[s]) = KeyOf(calls[t])) =>
      /\ GraphOf(calls[s].result) = GraphOf(calls[t].result)
      /\ ExpandedBy(s) = ExpandedBy(t)

\* Two runs of one request have returned in which the recursive calls were
\* resumed in different orders.
C19_TwoOrders ==
  \E s, t \in TopLevel :
    /\ s < t /\ calls[s].pc = "done" /\ calls[t].pc = "done"
    /\ Len(calls[s].promises) = 2 /\ Len(calls[t].promises) = 2
    /\ calls[calls[s].promises[1].child].currentScopeEntryNodeId
         < calls[calls[s].promises[2].child].currentScopeEntryNodeId
    /\ calls[calls[t].promises[1].child].currentScopeEntryNodeId
         > calls[calls[t].promises[2].child].currentScopeEntryNodeId

\* --------------------------------------------------------------------- C20

\* Every recursive call of the batch of invocation i has resolved.
BatchResolved(i) == \A p \in Promises(i) : calls[p.child].pc = "done"

\* C20: a parent suspended at its joint await appends to its steps and
\* flows only once every sub-extraction of its batch has resolved.
C20_MergeAfterBatch ==
  [][\A i \in 1..Len(calls) :
       ( /\ calls[i].pc = "await"
         /\ \/ calls'[i].localNodes # calls[i].localNodes
            \/ calls'[i].localEdges # calls[i].localEdges )
       => BatchResolved(i)]_vars

\* A parent has merged one sub-result of a batch of two.
C20_OneOfTwoMerged ==
  \E i \in 1..Len(calls) :
    /\ calls[i].pc = "await"
    /\ Len(calls[i].promises) = 2
    /\ \E p, q \in Promises(i) :
         /\ p.settled /\ Len(calls[p.child].result.nodes) > 0
         /\ ~q.settled

\* --------------------------------------------------------------------- C21

\* The step that follows call site id in the chain of invocation i: the next
\* call-site step the walk of i made, or the Exit step of i after the last.
Continuation(i, id) ==
  LET own == OwnNodes(i)
      k   == CHOOSE j \in 1..Len(own) : own[j].id = id
  IN  IF k < Len(own) THEN own[k + 1].id ELSE calls[i].currentScopeExitNodeId

\* C21: once a sub-result with a non-null exit id is stitched, the caller
\* has a flow from the sub-result's exit step to the continuation point of
\* the originating call site: the next call-site step of the caller, or the
\* caller's Exit step when the call site is its last.
C21_ExitToContinuation ==
  \A i \in 1..Len(calls) : \A p \in Promises(i) :
    (p.settled /\ Len(calls[p.child].result.nodes) > 0
               /\ calls[p.child].result.exitNodeId # null) =>
      HasEdge(calls[i].localEdges, calls[p.child].result.exitNodeId,
              Continuation(i, p.callSiteNodeId))

\* A sub-result with an exit step was stitched for a call site that is
\* followed by another call site of the same scope.
C21_StitchedBeforeNextCall ==
  \E i \in 1..Len(calls) : \E p \in Promises(i) :
    /\ p.settled /\ calls[p.child].result.exitNodeId # null
    /\ Continuation(i, p.callSiteNodeId) # calls[i].currentScopeExitNodeId

\* --------------------------------------------------------------------- C22

\* Invocation i has inserted its key and has not yet walked its scope: it is
\* at the await of its file refresh.
BetweenInsertAndWalk(i) == calls[i].inserted /\ calls[i].pc = "load"

\* C22: the joint await is the only suspension point of a branch, so from
\* the insertion of its visited key to the end of its walk no other branch
\* runs: while an invocation is between the two, no step changes another
\* invocation.
C22_NoYieldBeforeWalk ==
  [][\A i \in 1..Len(calls) :
       BetweenInsertAndWalk(i) =>
         \A j \in (1..Len(calls)) \ {i} : calls'[j] = calls[j]]_vars

\* Two sibling branches are both between their insertion and their walk.
C22_SiblingsSuspendedAtLoad ==
  \E i, j \in 2..Len(calls) :
    i # j /\ BetweenInsertAndWalk(i) /\ BetweenInsertAndWalk(j)

\* --------------------------------------------------------------------- C23

\* The step is the walk of invocation i: it resumes from its file load and
\* reaches its joint await.
WalkStep(i) == calls[i].pc = "load" /\ calls'[i].pc = "await"

\* The last step of the chain after the walk of i: its last call-site step,
\* or its Entry step if it has none.
LastOfChain(nodes) ==
  IF Len(nodes) > 2 THEN nodes[Len(nodes)].id ELSE nodes[1].id

\* C23: the walk of a scope is one uninterrupted step.  In it no invocation
\* that existed before changes, the invocations it starts are left at their
\* own first await (or returned at once as visited), no sub-result is merged
\* into the scope (no callback has run, every step and flow it holds is its
\* own), and the chain pointer is where the walk left it.
C23_WalkNotInterrupted ==
  [][\A i \in 1..Len(calls) :
       WalkStep(i) =>
         /\ \A j \in (1..Len(calls)) \ {i} : calls'[j] = calls[j]
         /\ \A j \in (Len(calls) + 1)..Len(calls') :
              /\ calls'[j].localNodes = <<>> /\ calls'[j].promises = <<>>
              /\ calls'[j].pc \in {"load", "done"}
              /\ calls'[j].result = EmptyResult
         /\ \A k \in 1..Len(calls'[i].promises) : ~calls'[i].promises[k].settled
         /\ Len(calls'[i].localEdges) = Len(calls'[i].localNodes) - 2
         /\ \A e \in 1..Len(calls'[i].localEdges) :
              /\ calls'[i].localEdges[e].from = 
                   (IF e = 1 THEN calls'[i].localNodes[1].id
                             ELSE calls'[i].localNodes[e + 1].id)
              /\ calls'[i].localEdges[e].to = calls'[i].localNodes[e + 2].id
         /\ calls'[i].lastProcessedNodeIdInCurrentScope = LastOfChain(calls'[i].localNodes)]_vars

\* A scope has been walked in which two recursive calls were started, one of
\* them turned away as visited.
C23_WalkedWithTwoLaunches ==
  \E i \in 1..Len(calls) :
    /\ calls[i].pc = "await"
    /\ Len(calls[i].promises) = 2
    /\ \E p \in Promises(i) : calls[p.child].pc = "done" /\ ~calls[p.child].inserted
    /\ \A p \in Promises(i) : ~p.settled

\* --------------------------------------------------------------------- C24

\* The recursive calls k and m of invocation i have the same target key.
SameTarget(i, k, m) ==
  KeyOf(calls[calls[i].promises[k].child]) = KeyOf(calls[calls[i].promises[m].child])

\* The recursive calls of a scope were started in document order, none
\* waiting for another, and the scope returns only after all of them have
\* returned and were stitched.
LaunchedInOrderAndJoined ==
  \A i \in 1..Len(calls) :
    /\ \A k, m \in 1..Len(calls[i].promises) :
         k < m => /\ calls[i].promises[k].child < calls[i].promises[m].child
                  /\ calls[i].promises[k].callSiteNodeId < calls[i].promises[m].callSiteNodeId
    /\ calls[i].pc = "done" =>
         \A p \in Promises(i) : p.settled /\ calls[p.child].pc = "done"

\* C24 as stated: of several call sites of one scope with the same target
\* key, the first in document order is the one whose expansion is
\* non-empty, and every later one gets the empty already-visited result.
C24_FirstCallSiteExpands ==
  /\ LaunchedInOrderAndJoined
  /\ \A i \in 1..Len(calls) : \A k, m \in 1..Len(calls[i].promises) :
       (k < m /\ SameTarget(i, k, m)) =>
         /\ TurnedAway(calls[i].promises[m].child)
         /\ calls[calls[i].promises[m].child].result = EmptyResult
         /\ calls[calls[i].promises[k].child].pc = "done" =>
              Len(calls[calls[i].promises[k].child].result.nodes) > 0

\* C24 amended: every later call site gets the empty already-visited
\* result, and the first one is the only one that can pass the visited
\* check; its expansion is non-empty when it passes the check and its file
\* loads.
C24_OnlyFirstCallSiteCanExpand ==
  /\ LaunchedInOrderAndJoined
  /\ \A i \in 1..Len(calls) : \A k, m \in 1..Len(calls[i].promises) :
       (k < m /\ SameTarget(i, k, m)) =>
         /\ TurnedAway(calls[i].promises[m].child)
         /\ calls[calls[i].promises[m].child].result = EmptyResult
         /\ ( /\ calls[calls[i].promises[k].child].pc = "done"
              /\ calls[calls[i].promises[k].child].inserted
              /\ ~LoadFailed(calls[i].promises[k].child) ) =>
              Len(calls[calls[i].promises[k].child].result.nodes) > 0

\* A scope with two call sites of the same target has returned, the first
\* expansion non-empty and the second turned away.
C24_SameTargetTwice ==
  \E i \in 1..Len(calls) :
    /\ calls[i].pc = "done"
    /\ Len(calls[i].promises) = 2
    /\ SameTarget(i, 1, 2)
    /\ Len(calls[calls[i].promises[1].child].result.nodes) > 0
    /\ TurnedAway(calls[i].promises[2].child)

\* --------------------------------------------------------------------- C25

\* Invocation a is i or an ancestor of i in the tree of recursive calls.
RECURSIVE IsAncestorOrSelf(_, _)
IsAncestorOrSelf(a, i) ==
  \/ a = i
  \/ ParentOf(i) # 0 /\ IsAncestorOrSelf(a, ParentOf(i))

\* The sub-extraction started as invocation c with all the expansions below it.
BranchOf(c) == {i \in 1..Len(calls) : IsAncestorOrSelf(c, i)}

\* The ids of the steps and flows made so far anywhere in the branch of c.
IdsMadeIn(c) ==
  UNION {NodeIds(calls[i].localNodes) \cup NodeIds(calls[i].localEdges) : i \in BranchOf(c)}

\* C25: a sub-result is merged into its parent only after the
\* sub-extraction that produced it and every expansion below it has
\* returned, and a branch that has not returned has no step and no flow in
\* its parent's (hence in any ancestor's) accumulating result.
C25_MergedOnlyWhenComplete ==
  \A i \in 1..Len(calls) : \A p \in Promises(i) :
    /\ p.settled =>
         \A j \in BranchOf(p.child) :
           /\ calls[j].pc = "done"
           /\ \A q \in Promises(j) : q.settled
    /\ calls[p.child].pc # "done" =>
         /\ ~p.settled
         /\ IdsMadeIn(p.child)
              \cap (NodeIds(calls[i].localNodes) \cup NodeIds(calls[i].localEdges)) = {}

\* A parent waits for a branch that has merged a sub-result of its own but
\* has not returned yet.
C25_BranchInFlight ==
  \E i \in 1..Len(calls) : \E p \in Promises(i) :
    /\ calls[p.child].pc = "await"
    /\ \E q \in Promises(p.child) : q.settled /\ Len(calls[q.child].result.nodes) > 0

\* --------------------------------------------------------------------- C26

\* The flows of invocation i made by its walk that end at step id: they run
\* between two steps the invocation made itself.
WalkFlowsInto(i, id) ==
  {e \in 1..Len(calls[i].localEdges) :
     /\ calls[i].localEdges[e].to = id
     /\ calls[i].localEdges[e].from \in NodeIds(OwnNodes(i))}

\* C26: the call-site steps a scope's walk made form a chain in document
\* order: each has exactly one incoming flow made by the walk, the first
\* from the scope's Entry step, every later one from the call-site step made
\* just before it.
C26_LinearChain ==
  \A i \in 1..Len(calls) :
    HasWalked(i) =>
      \A k \in 3..Len(OwnNodes(i)) :
        /\ Cardinality(WalkFlowsInto(i, OwnNodes(i)[k].id)) = 1
        /\ \A e \in WalkFlowsInto(i, OwnNodes(i)[k].id) :
             calls[i].localEdges[e].from =
               (IF k = 3 THEN calls[i].currentScopeEntryNodeId ELSE OwnNodes(i)[k - 1].id)
        /\ OwnNodes(i)[k].codeReference.startLine > OwnNodes(i)[k - 1].codeReference.startLine
           \/ k = 3

\* A scope with two call sites has returned after a sub-result was stitched
\* behind the first of them.
C26_ChainOfTwo ==
  \E i \in 1..Len(calls) :
    /\ calls[i].pc = "done"
    /\ Len(OwnNodes(i)) = 4
    /\ \E p \in Promises(i) :
         p.callSiteNodeId = OwnNodes(i)[3].id /\ Len(calls[p.child].result.nodes) > 0

\* --------------------------------------------------------------------- C27

\* The step is the finalisation of invocation i: its joint await is over and
\* it returns.
FinalizeStep(i) == calls[i].pc = "await" /\ calls'[i].pc = "done"

\* Some flow accumulated by invocation i leaves its last-seen step.
LastHasOutgoing(i) ==
  \E e \in 1..Len(calls[i].localEdges) :
    calls[i].localEdges[e].from = calls[i].lastProcessedNodeIdInCurrentScope

\* C27: when a scope finalizes, after every sub-result of its batch was
\* stitched, it adds a flow from the last-seen step of its chain to its Exit
\* step if and only if no accumulated flow leaves that step; it adds nothing
\* else.
C27_FinalFlowIffNoOutgoing ==
  [][\A i \in 1..Len(calls) :
       FinalizeStep(i) =>
         /\ \A p \in Promises(i) : p.settled
         /\ calls'[i].result.nodes = calls[i].localNodes
         /\ IF LastHasOutgoing(i)
            THEN calls'[i].result.edges = calls[i].localEdges
            ELSE /\ Len(calls'[i].result.edges) = Len(calls[i].localEdges) + 1
                 /\ SubSeq(calls'[i].result.edges, 1, Len(calls[i].localEdges))
                      = calls[i].localEdges
                 /\ LET e == calls'[i].result.edges[Len(calls[i].localEdges) + 1]
                    IN  /\ e.from = calls[i].lastProcessedNodeIdInCurrentScope
                        /\ e.to = calls[i].currentScopeExitNodeId
                        /\ e.type = "DirectCall"]_vars

\* A scope that got its final flow was stitched into a scope that did not.
C27_WithAndWithoutFinalFlow ==
  \E i \in 1..Len(calls) : \E p \in Promises(i) :
    /\ calls[i].pc = "done" /\ HasWalked(i) /\ HasWalked(p.child)
    /\ ~HasEdge(calls[i].result.edges, calls[i].lastProcessedNodeIdInCurrentScope,
                calls[i].currentScopeExitNodeId)
    /\ HasEdge(calls[p.child].result.edges,
               calls[p.child].lastProcessedNodeIdInCurrentScope,
               calls[p.child].currentScopeExitNodeId)

\* --------------------------------------------------------------------- C28

\* The call expressions of the scan that enclose its k-th one.
Enclosing(scan, k) ==
  {j \in 1..(k - 1) : \A m \in (j + 1)..k : scan[m].depth > scan[j].depth}

\* Invocation i walked its scope without a line window.
WalkedUnbounded(i) ==
  HasWalked(i) /\ (calls[i].startLine = undefined \/ calls[i].endLine = undefined)

\* The steps the walk of i made for the k-th call expression of its scope.
StepsFor(i, k) ==
  OwnCallSteps(i, ScanOf(i)[k].file, ScanOf(i)[k].startLine - 1)

\* The k-th call expression of the scan lies in the subtree of a call that
\* resolved to an in-project declaration.
InResolvedSubtree(scan, k) ==
  \E j \in Enclosing(scan, k) : ResolvesInProject(scan[j].callee)

\* The call expressions before the k-th that lie in no such subtree.
DescendedBefore(scan, k) == {j \in 1..(k - 1) : ~InResolvedSubtree(scan, j)}

\* C28: in a scope's walk a call expression nested in a call that resolved
\* to an in-project declaration gets no step (the subtree of that call is
\* skipped), whereas one nested only in unresolved or external calls gets
\* its step, chained right after the step of the last call the walk came to
\* before it.
C28_ResolvedSubtreeSkipped ==
  \A i \in 1..Len(calls) :
    WalkedUnbounded(i) =>
      \A k \in 1..Len(ScanOf(i)) :
        IF InResolvedSubtree(ScanOf(i), k)
        THEN StepsFor(i, k) = {}
        ELSE /\ Cardinality(StepsFor(i, k)) = 1
             /\ \A s \in StepsFor(i, k) :
                  /\ OwnNodes(i)[s].label.name = ScanOf(i)[k].callee
                  /\ \A j \in DescendedBefore(ScanOf(i), k) :
                       (\A m \in DescendedBefore(ScanOf(i), k) : m <= j) =>
                         \E t \in StepsFor(i, j) :
                           HasEdge(calls[i].localEdges, OwnNodes(i)[t].id,
                                   OwnNodes(i)[s].id)

\* A scope was walked in which a call is nested in the arguments of a call
\* that resolved to an in-project function.
C28_NestedInResolvedCall ==
  \E i \in 1..Len(calls) :
    /\ WalkedUnbounded(i)
    /\ \E k \in 1..Len(ScanOf(i)) : InResolvedSubtree(ScanOf(i), k)

\* --------------------------------------------------------------------- C29

\* C29: in every result the boundary steps of an expanded scope are an
\* EntryPoint step and an ExitPoint step, for the top-level scope and for
\* recursively expanded scopes alike, and the kind Function is carried only
\* by call-site steps.
C29_BoundaryKinds ==
  \A i \in 1..Len(calls) :
    calls[i].pc = "done" =>
      \A k \in 1..Len(calls[i].result.nodes) :
        LET n == calls[i].result.nodes[k] IN
          /\ IsEntryStep(n) => n.type = "EntryPoint"
          /\ IsExitStep(n) => n.type = "ExitPoint"
          /\ n.type = "Function" => IsCallStep(n)

\* A top-level result holds the entry step of a recursively expanded scope.
C29_RecursiveScopeInResult ==
  /\ TopDone
  /\ \E i \in 2..Len(calls) :
       /\ HasWalked(i)
       /\ calls[i].currentScopeEntryNodeId \in NodeIds(calls[1].result.nodes)

\* --------------------------------------------------------------------- C30

\* The in-project declarations the calls in the body of d resolve to, as far
\* as the walk of d visits them (not nested in an expanded call).
ResolvedCallees(d) ==
  IF d \in BodyDecls
  THEN {source[d][k].callee :
          k \in {m \in 1..Len(source[d]) :
                   /\ ResolvesInProject(source[d][m].callee)
                   /\ \A j \in Enclosing(source[d], m) :
                        ~ResolvesInProject(source[d][j].callee)}}
  ELSE {}

\* The declarations reachable from the ones in seen through resolved calls.
RECURSIVE ReachableDecls(_)
ReachableDecls(seen) ==
  LET more == UNION {ResolvedCallees(d) : d \in seen}
  IN  IF more \subseteq seen THEN seen ELSE ReachableDecls(seen \cup more)

\* The declaration the top-level request names.
StartingDecl ==
  findFunctionByName(calls[1].filePath, calls[1].functionName, calls[1].startLine)

\* The entry steps of declaration d in the result r.
EntryStepsOf(r, d) ==
  {k \in 1..Len(r.nodes) :
     /\ IsEntryStep(r.nodes[k])
     /\ r.nodes[k].label.name = Declarations[d].name
     /\ r.nodes[k].codeReference =
          createCodeReference(Declarations[d].file, StartLineOf(d), EndLineOf(d))}

\* The file of d can be read and the lookup by name from the first line of
\* d gives d.
Locatable(d) ==
  /\ Declarations[d].file \notin Unreadable
  /\ findFunctionByName(Declarations[d].file, Declarations[d].name, StartLineOf(d)) = d

\* C30: once a request for a function has returned, every distinct
\* in-project function declaration reachable from it through resolved calls
\* (whose file can be read and in which the lookup finds it) has exactly one
\* entry step in the merged result, also when two declarations of one file
\* carry the same name.
C30_EveryDeclarationExpandedOnce ==
  (TopDone /\ calls[1].functionName # NoName /\ StartingDecl # NotFound) =>
    \A d \in ReachableDecls({StartingDecl}) :
      Locatable(d) => Cardinality(EntryStepsOf(calls[1].result, d)) = 1

\* A request has returned whose starting function calls two distinct
\* declarations of the same file with the same name.
C30_SameNamedDeclarationsCalled ==
  /\ TopDone /\ calls[1].functionName # NoName /\ StartingDecl # NotFound
  /\ \E d, e \in ReachableDecls({StartingDecl}) :
       /\ d # e
       /\ Locatable(d) /\ Locatable(e)
       /\ Declarations[d].file = Declarations[e].file
       /\ Declarations[d].name = Declarations[e].name

\* --------------------------------------------------------------------- C31

\* The flows of a list, as a set.
FlowsOf(flows) == {flows[k] : k \in 1..Len(flows)}

\* The calls i and j are two saveFlow calls that overlapped in time (j was
\* made while i was under way) and have both returned, every write having
\* succeeded and the flows file having been there from the start.
OverlappingSaves(i, j) ==
  /\ i \in storageOps[j].during
  /\ storageOps[i].op = "saveFlow" /\ storageOps[j].op = "saveFlow"
  /\ storageOps[i].pc = "done" /\ storageOps[j].pc = "done"
  /\ \A k \in 1..Len(storageOps) : ~storageOps[k].failed /\ ~storageOps[k].created

\* C31: saveFlow loses no flow under concurrency: when two saveFlow calls
\* have overlapped and both have returned, the stored flows contain both new
\* flows and every flow that was stored before.
C31_NoFlowLost ==
  \A i, j \in 1..Len(storageOps) :
    OverlappingSaves(i, j) =>
      /\ {storageOps[i].result.flow, storageOps[j].result.flow}
           \subseteq FlowsOf(StoredIn(flowsFile))
      /\ FlowsOf(storageOps[i].stored) \subseteq FlowsOf(StoredIn(flowsFile))

\* Two saveFlow calls overlapped and both have returned.
C31_TwoSavesOverlapped ==
  \E i, j \in 1..Len(storageOps) : OverlappingSaves(i, j)

\* --------------------------------------------------------------------- C32

\* Call i is a call of method op that has returned, that was made with no
\* call under way and after which no call was made.
ReturnedAlone(i, op) ==
  /\ i = Len(storageOps)
  /\ storageOps[i].op = op
  /\ storageOps[i].pc = "done"
  /\ storageOps[i].during = {}

Without(flows, id) == SelectSeq(flows, LAMBDA f : f.id # id)

HasId(flows, id) == \E k \in 1..Len(flows) : flows[k].id = id

\* What deleteFlow call i returned and left behind: true exactly when a
\* stored flow had the id; then the stored flows are the earlier ones
\* without that id, in their order; on false nothing was written back.
DeleteEffect(i) ==
  /\ storageOps[i].result.ok = HasId(storageOps[i].stored, storageOps[i].arg.id)
  /\ storageOps[i].result.ok =>
       StoredIn(flowsFile) = Without(storageOps[i].stored, storageOps[i].arg.id)
  /\ ~storageOps[i].result.ok =>
       ~storageOps[i].wrote /\ StoredIn(flowsFile) = storageOps[i].stored

UpdateEffect(i) ==
  LET o == storageOps[i]
      at == findIndex(o.stored, o.arg.id)
  IN  /\ o.result.flow.id = o.arg.id /\ o.result.flow.name = o.arg.name
      /\ Len(StoredIn(flowsFile)) = Len(o.stored)
      /\ \A k \in 1..Len(o.stored) :
           /\ StoredIn(flowsFile)[k].id = o.stored[k].id
           /\ StoredIn(flowsFile)[k] = IF k = at THEN o.result.flow ELSE o.stored[k]

\* The getFlowById of the same id made right after updateFlow call i.
LookupAfter(i, j) ==
  /\ j = i + 1 /\ j = Len(storageOps)
  /\ storageOps[i].op = "updateFlow" /\ storageOps[i].during = {}
  /\ storageOps[j].op = "getFlowById" /\ storageOps[j].during = {}
  /\ storageOps[j].arg.id = storageOps[i].arg.id
  /\ storageOps[j].pc = "done"

\* An update of an id that is not stored: undefined, nothing written.
UpdateOfUnknown(i) ==
  /\ storageOps[i].result.flow = NoFlow
  /\ ~storageOps[i].wrote
  /\ StoredIn(flowsFile) = storageOps[i].stored

ExportCommand(format) ==
  CASE format = "svg" -> "export-svg"
    [] format = "png" -> "export-png"
    [] format = "markdown" -> "export-markdown"

\* C34: requestExport called while the graph view is available posts an
\* export-<format> message carrying a fresh requestId, and its promise
\* settles only by the matching reply (resolved with its data, or rejected
\* with its error) or by the timeout.
C34_ExportPostsAndSettles ==
  \A e \in 1..Len(exports) :
    exports[e].available =>
      /\ exports[e].requestId # undefined
      /\ \E k \in 1..Len(posted) :
           /\ posted[k].command = ExportCommand(exports[e].format)
           /\ posted[k].requestId = exports[e].requestId
      /\ exports[e].settled = "rejected" =>
           exports[e].value \in {"reply error", "timed out"}

\* requestExport was called while the graph view was available, and its
\* promise has settled.
C34_ExportRequestedWithView ==
  \E e \in 1..Len(exports) :
    exports[e].available /\ exports[e].settled \in {"resolved", "rejected"}

\* --------------------------------------------------------------------- C36

\* Every showFlow call made so far has completed and found the webview
\* there to take its message.
ShowsCompleted ==
  /\ shows # <<>>
  /\ _webviewView
  /\ \A s \in 1..Len(shows) : shows[s].pc = "done" /\ shows[s].sent

\* C36: once every showFlow call has completed with the webview available,
\* the last showFlow message posted to the webview is the one for the flow
\* id held in _currentFlowId.
C36_LastShownIsCurrent ==
  ShowsCompleted =>
    /\ posted[Len(posted)].command = "showFlow"
    /\ posted[Len(posted)].flowId = _currentFlowId

\* Two showFlow calls overlapped (the second was made while the first
\* awaited its flow) and both have completed with the webview available.
C36_OverlappingShowsCompleted ==
  /\ ShowsCompleted
  /\ \E s, t \in 1..Len(shows) :
       /\ s < t
       /\ shows[s].call # 0 /\ shows[t].call # 0
       /\ shows[s].call \in storageOps[shows[t].call].during

\* --------------------------------------------------------------------- C35

\* C35: at most one trace timer is active at any time, and it is the one
\* currentTraceInterval refers to: no interval is left running without
\* being referenced by currentTraceInterval, whatever the interleaving of
\* two overlapping invocations of traceFlowHandler.
C35_OneTraceTimer ==
  /\ Cardinality(intervals) <= 1
  /\ \A t \in intervals : currentTraceInterval = t

\* Two invocations overlapped (the second was made before the first set its
\* interval) and both have set their interval.
C35_TwoTracesStarted ==
  \E s, t \in 1..Len(traces) :
    s # t /\ traces[s].started /\ traces[t].started

\* --------------------------------------------------------------------- C37

\* saveCurrentFlow of the command self ends: saveFlow has resolved and lines
\* 400-406 run.
SavedStep(self) == captureOps[self].pc = "saveFlow" /\ captureOps'[self].pc = "done"

\* C37: from the activation on and after every step of setStartPin,
\* setEndPin, clearPins and saveCurrentFlow, the context key
\* flowMaster.canSaveFlow equals hasPinsSet(): it is true exactly when both
\* pins are set; and a saveCurrentFlow that saved leaves both pins cleared.
C37_ContextFollowsPins ==
  /\ canSaveFlow = hasPinsSet
  /\ [][/\ canSaveFlow' = (startPin' # NoPin /\ endPin' # NoPin)
        /\ \A self \in 1..Len(captureOps) :
             SavedStep(self) => startPin' = NoPin /\ endPin' = NoPin]_vars

\* A flow captured with both pins set has been saved, and the pins are
\* cleared and the context key is false.
C37_SavedWithBothPins ==
  \E self \in 1..Len(captureOps) :
    /\ captureOps[self].pc = "done"
    /\ captureOps[self].call # 0
    /\ captureOps[self].startAtCall # NoPin
    /\ captureOps[self].endAtCall # NoPin
    /\ ~hasPinsSet
    /\ ~canSaveFlow

\* --------------------------------------------------------------------- C38

\* The flow o.capturedData is the fallback of two pins: two nodes and one
\* DirectCall edge from the first to the second.
TwoJoinedNodes(flow) ==
  /\ Len(flow.nodes) = 2
  /\ Len(flow.edges) = 1
  /\ flow.edges[1].type = "DirectCall"
  /\ flow.edges[1].from = flow.nodes[1].id
  /\ flow.edges[1].to = flow.nodes[2].id
  /\ flow.nodes[1].id # flow.nodes[2].id

\* What C38 says of the call of captureFlow made by the command o.
CapturedAsSaid(o) ==
  IF o.startAtCall = NoPin
  THEN ~o.capturedData.defined
  ELSE /\ o.capturedData.defined
       /\ Len(o.capturedData.nodes) >= 1
       /\ (o.parsedData = EmptyResult /\ o.endAtCall # NoPin)
            => TwoJoinedNodes(o.capturedData)

\* C38: captureFlow returns undefined when no start pin is set; called with
\* a start pin set it returns a flow of at least one node, also when the
\* extraction returned the empty result, and in that fallback with both
\* pins set it returns exactly two nodes joined by one DirectCall edge from
\* the start node to the end node.
C38_CaptureNeverEmpty ==
  \A self \in 1..Len(captureOps) :
    captureOps[self].returned => CapturedAsSaid(captureOps[self])

\* captureFlow was called with both pins set, the extraction returned the
\* empty result, and the two nodes of the pins were returned.
C38_FallbackOfTwoPins ==
  \E self \in 1..Len(captureOps) :
    /\ captureOps[self].returned
    /\ captureOps[self].startAtCall # NoPin
    /\ captureOps[self].endAtCall # NoPin
    /\ captureOps[self].parsedData = EmptyResult
    /\ TwoJoinedNodes(captureOps[self].capturedData)

====
